---- MODULE Spec2Model ----
(***************************************************************************)
(* Model of the cooking-app REST server (src/index.js).  The state is the  *)
(* document store (one sequence of documents per collection, in insertion  *)
(* order) and the requests in flight.  Every handler is cut at its awaits: *)
(* one action is the synchronous code up to and including one store or     *)
(* identity-provider call.                                                 *)
(***************************************************************************)
EXTENDS Integers, Sequences, FiniteSets, TLC

VARIABLES
    users,          \* userColl: <<[email, role, status, chefId]>>
    roleRequests,   \* roleRequestColl: <<[userEmail, requestType, requestStatus]>>
    meals,          \* mealsColl: <<[chefEmail, userEmail, by]>>
    orders,         \* ordersCollection: <<[userEmail, chefEmail, orderStatus,
                    \*                      paymentStatus, by]>>
    favorites,      \* favoritesCollection: <<[userEmail, mealId, by]>>
    reviews,        \* reviewsCollection: <<[reviewerEmail, foodId, comment, by]>>
    payments,       \* paymentCollection: <<[orderId]>>
    req,            \* the requests in flight, one per slot
    mode,           \* [concurrent, faults]: fixed for a behaviour
    sessions        \* the payment processor's checkout sessions: the
                    \* orderId each was created for

vars == <<users, roleRequests, meals, orders, favorites, reviews, payments,
         req, mode, sessions>>
store == <<users, roleRequests, meals, orders, favorites, reviews, payments>>

----------------------------------------------------------------------------
(* Bounds *)

MaxUsers == 2
MaxRoleRequests == 2
MaxDocs == 1

----------------------------------------------------------------------------
(* Values *)

Slots == {"r1", "r2"}

Undefined == "undefined"
AdminEmail == "admin@x.com"
Emails == {AdminEmail, "a@x.com", "b@x.com"}

\* What the identity provider answers for a token: the email it was issued
\* for, or the cause of the verification error.
ValidTokens == {"tok-admin", "tok-a"}
BadTokens == {"tok-expired", "tok-garbled"}
Tokens == ValidTokens \cup BadTokens
TokenEmail(t) ==
    CASE t = "tok-admin" -> AdminEmail
      [] t = "tok-a" -> "a@x.com"
      [] OTHER -> Undefined
TokenError(t) ==
    CASE t = "tok-expired" -> "auth/id-token-expired"
      [] OTHER -> "auth/argument-error"

\* An Authorization header is its text cut at the spaces (split(" "));
\* NoHeader when the request carries none.
NoHeader == <<>>
WellFormedHeaders == {<<"Bearer", t>> : t \in Tokens}
MalformedHeaders ==
    {NoHeader, <<"">>, <<"Bearer">>, <<"Bearer", "tok-a", "x">>,
     <<"Bearer", "tok-expired", "x">>}
Headers == WellFormedHeaders \cup MalformedHeaders \cup {<<"Bearer", "">>}

NoUser == [email |-> Undefined, role |-> Undefined, status |-> Undefined,
           chefId |-> Undefined]
NoRequest == [userEmail |-> Undefined, requestType |-> Undefined,
              requestStatus |-> Undefined]
NoResponse == [status |-> 0, err |-> Undefined, body |-> Undefined]
Response(st, b) == [status |-> st, err |-> Undefined, body |-> b]

Falsy(v) == v \in {Undefined, ""}

\* Request bodies and route parameters: every field a route reads, Undefined
\* when the client left it out.
EmptyBody ==
    [email |-> Undefined, userEmail |-> Undefined, reviewerEmail |-> Undefined,
     chefEmail |-> Undefined, role |-> Undefined, status |-> Undefined,
     mealId |-> Undefined, foodId |-> Undefined, requestType |-> Undefined,
     comment |-> Undefined, orderStatus |-> Undefined, orderId |-> 0]
EmptyParams == [email |-> Undefined, id |-> 0, mealId |-> Undefined]

\* Store identifiers: document i of a collection has identifier i; 0 stands
\* for a string that is no ObjectId, for which new ObjectId(id) throws.
ObjectIdIsValid(id) == id >= 1

\* by: the principal whose request inserted the document (not a field of the
\* stored document).  A deleted document leaves its identifier unused: its
\* position holds the collection's absent document from then on.
NoMeal == [chefEmail |-> Undefined, userEmail |-> Undefined, by |-> Undefined]
NoOrder == [userEmail |-> Undefined, chefEmail |-> Undefined,
            orderStatus |-> Undefined, paymentStatus |-> Undefined,
            by |-> Undefined]
NoFavorite == [userEmail |-> Undefined, mealId |-> Undefined, by |-> Undefined]
NoReview == [reviewerEmail |-> Undefined, foodId |-> Undefined,
             comment |-> Undefined, by |-> Undefined]

IdleRequest ==
    [route |-> "none", pc |-> "idle", auth |-> NoHeader, body |-> EmptyBody,
     params |-> EmptyParams, tokenEmail |-> Undefined, user |-> NoUser,
     request |-> NoRequest, resp |-> NoResponse, sent |-> <<>>,
     totalUsers |-> 0, totalMeals |-> 0,
     verifyCalled |-> FALSE, policyRan |-> FALSE, reads |-> 0, writes |-> 0,
     userUpdated |-> FALSE, userUpdateFailed |-> FALSE, approved |-> FALSE]

----------------------------------------------------------------------------
(* Document store *)

\* findOne/updateOne act on the first document, in natural order, among
\* those that match the filter (matches: their positions); 0 when none does.
FirstMatch(matches) ==
    IF matches = {} THEN 0
    ELSE CHOOSE i \in matches : \A j \in matches : i <= j

UsersWith(coll, email) == {i \in 1..Len(coll) : coll[i].email = email}
UserIdx(email) == FirstMatch(UsersWith(users, email))
FindUser(email) == IF UserIdx(email) = 0 THEN NoUser ELSE users[UserIdx(email)]

\* A store call either completes or throws; it throws only in a faulty run.
StoreOutcomes == IF mode.faults THEN {"ok", "throw"} ELSE {"ok"}

----------------------------------------------------------------------------
(* Routes *)

\* The middleware chain of each route, as registered with app.<method>().
Chain(route) ==
    CASE route = "POST /users" -> <<"verifyJWT", "h1">>
      [] route = "PATCH /users/make-fraud/:email" ->
             <<"verifyJWT", "verifyAdmin", "h1">>
      [] route = "POST /meals" -> <<"verifyJWT", "verifyChef", "h1">>
      [] route = "POST /reviews" -> <<"verifyJWT", "h1">>
      [] route = "POST /favorites" -> <<"verifyJWT", "h1">>
      [] route = "POST /orders" -> <<"verifyJWT", "h1">>
      [] route = "POST /role-requests" -> <<"verifyJWT", "h1">>
      [] route = "PATCH /role-requests/accept/:id" ->
             <<"verifyJWT", "verifyAdmin", "h1">>
      [] route = "PATCH /role-requests/reject/:id" ->
             <<"verifyJWT", "verifyAdmin", "h1">>
      [] route = "GET /users" -> <<"verifyJWT", "verifyAdmin", "h1">>
      [] route = "GET /role-requests" -> <<"verifyJWT", "verifyAdmin", "h1">>
      [] route = "GET /admin/statistics" ->
             <<"verifyJWT", "verifyAdmin", "h1">>
      [] route = "GET /users/:email" -> <<"verifyJWT", "h1">>
      [] route = "GET /user-reviews" -> <<"verifyJWT", "h1">>
      [] route = "GET /reviews/:mealId" -> <<"verifyJWT", "h1">>
      [] route = "POST /create-payment-intent" -> <<"verifyJWT", "h1">>
      [] route = "GET /meals" -> <<"h1">>
      [] route = "GET /reviews" -> <<"h1">>
      [] route = "GET /meals/:id" -> <<"h1">>
      [] route = "GET /orders/:id" -> <<"h1">>
      [] route = "DELETE /favorites/:id" -> <<"h1">>
      [] route = "POST /payment-success" -> <<"h1">>
      [] route = "PATCH /orders/:id" -> <<"verifyJWT", "verifyChef", "h1">>
      [] route = "DELETE /meals/:id" -> <<"verifyJWT", "verifyChef", "h1">>
      [] route = "PATCH /meals/:id" -> <<"verifyJWT", "verifyChef", "h1">>
      [] route = "DELETE /reviews/:id" -> <<"verifyJWT", "h1">>
      [] route = "PATCH /reviews/:id" -> <<"verifyJWT", "h1">>
      [] route = "earliest POST /users" -> <<"earliest verifyJWT", "h1">>
      [] route = "earliest POST /meals" -> <<"earliest verifyJWT", "h1">>
      [] OTHER -> <<"h1">>

\* next(): the element of the chain after the middleware mw.
AfterMiddleware(route, mw) ==
    LET c == Chain(route)
        i == CHOOSE k \in 1..Len(c) : c[k] = mw
    IN  c[i + 1]

InFlight(s) == req[s].pc \notin {"idle", "done"}

\* res.status(st).send(b): the request is answered and the handler returns.
Respond(s, st, b) ==
    [req[s] EXCEPT !.pc = "done", !.resp = Response(st, b)]

----------------------------------------------------------------------------
(* Identity resolver *)

\* getTokenFromHeader: null unless the header is exactly two segments.
getTokenFromHeader(auth) ==
    IF auth = NoHeader \/ auth = <<"">> THEN Undefined
    ELSE IF Len(auth) # 2 THEN Undefined
    ELSE auth[2]

\* admin.auth().verifyIdToken(token): the decoded token, or the error thrown.
\* The provider may be unreachable in a faulty run.
verifyIdToken(token) ==
    IF token \in ValidTokens
    THEN {[ok |-> TRUE, email |-> TokenEmail(token), err |-> Undefined]}
            \cup (IF mode.faults
                  THEN {[ok |-> FALSE, email |-> Undefined,
                         err |-> "app/network-error"]}
                  ELSE {})
    ELSE {[ok |-> FALSE, email |-> Undefined, err |-> TokenError(token)]}

\* The 401 sent from verifyJWT's catch block: { message, err }.
VerifyErrorResponse(err) ==
    [status |-> 401, err |-> err, body |-> "Unauthorized Access!"]

\* verifyJWT: 401 without a token; otherwise the provider verifies it, and a
\* verification error is answered 401 with the error object in the body.
VerifyJWT(s) ==
    /\ req[s].pc = "verifyJWT"
    /\ LET r == req[s]
           token == getTokenFromHeader(r.auth)
       IN  IF Falsy(token)
           THEN req' = [req EXCEPT ![s] =
                           Respond(s, 401, "Unauthorized Access!")]
           ELSE \E decodedToken \in verifyIdToken(token) :
                   IF decodedToken.ok
                   THEN req' = [req EXCEPT ![s] =
                           [r EXCEPT !.verifyCalled = TRUE,
                                     !.tokenEmail = decodedToken.email,
                                     !.pc = AfterMiddleware(r.route, "verifyJWT")]]
                   ELSE req' = [req EXCEPT ![s] =
                           [r EXCEPT !.verifyCalled = TRUE,
                                     !.pc = "done",
                                     !.resp = VerifyErrorResponse(decodedToken.err)]]
    /\ UNCHANGED <<store, mode, sessions>>

----------------------------------------------------------------------------
(* Policy evaluator *)

\* A throw that no try/catch of the handler catches: the framework either
\* answers 500 itself or leaves the request unanswered (status 0).
UnhandledOutcomes == {NoResponse, Response(500, "Internal Server Error")}

\* Mutant: the administrator gate stops only a principal without a record.
NotAdmin_OnlyAbsent(user) == user = NoUser

\* !user || user.role !== "admin", the test of verifyAdmin.
NotAdmin(user) == user = NoUser \/ user.role # "admin"

\* verifyAdmin: 403 unless the principal's user record has role admin.
VerifyAdmin(s) ==
    /\ req[s].pc = "verifyAdmin"
    /\ \E outcome \in StoreOutcomes :
          LET r == [req[s] EXCEPT !.reads = @ + 1, !.policyRan = TRUE]
              user == FindUser(r.tokenEmail)
          IN  IF outcome = "throw"
              THEN \E resp \in UnhandledOutcomes :
                      req' = [req EXCEPT ![s] =
                                 [r EXCEPT !.pc = "done", !.resp = resp]]
              ELSE IF NotAdmin(user)
              THEN req' = [req EXCEPT ![s] =
                              [r EXCEPT !.pc = "done",
                                        !.resp = Response(403, "Admin only!")]]
              ELSE req' = [req EXCEPT ![s] =
                              [r EXCEPT !.pc =
                                  AfterMiddleware(r.route, "verifyAdmin")]]
    /\ UNCHANGED <<store, mode, sessions>>

\* verifyChef: 404 without a user record, 403 unless role is chef or admin.
VerifyChef(s) ==
    /\ req[s].pc = "verifyChef"
    /\ \E outcome \in StoreOutcomes :
          LET r == [req[s] EXCEPT !.reads = @ + 1, !.policyRan = TRUE]
              user == FindUser(r.tokenEmail)
          IN  IF outcome = "throw"
              THEN req' = [req EXCEPT ![s] =
                              [r EXCEPT !.pc = "done",
                                        !.resp = Response(500,
                                            "Server error in verifyChef")]]
              ELSE IF user = NoUser
              THEN req' = [req EXCEPT ![s] =
                              [r EXCEPT !.pc = "done",
                                        !.resp = Response(404, "User not found!")]]
              ELSE IF user.role # "chef" /\ user.role # "admin"
              THEN req' = [req EXCEPT ![s] =
                              [r EXCEPT !.pc = "done",
                                        !.resp = Response(403,
                                            "Access denied! Chef only.")]]
              ELSE req' = [req EXCEPT ![s] =
                              [r EXCEPT !.pc =
                                  AfterMiddleware(r.route, "verifyChef")]]
    /\ UNCHANGED <<store, mode, sessions>>

\* Mutant: the self-ownership check lets every owner field through.
NotOwner_Never(owner, tokenEmail) == FALSE

\* The self-ownership check of the creation routes: the owner field of the
\* body is not the principal's email.
NotOwner(owner, tokenEmail) == owner # tokenEmail

----------------------------------------------------------------------------
(* Users *)

\* Mutant: the duplicate check of POST /users never finds the record.
UserExists_Never(email) == FALSE

\* exists, in POST /users: findOne({ email }) found a record.
UserExists(email) == FindUser(email) # NoUser

\* POST /users, up to its findOne: 400 without email, 403 when the email is
\* not the principal's, success without insertion when the record exists.
PostUsersFind(s) ==
    /\ req[s].route = "POST /users" /\ req[s].pc = "h1"
    /\ LET r == req[s]
           user == r.body
       IN  IF Falsy(user.email)
           THEN req' = [req EXCEPT ![s] = Respond(s, 400, "email required")]
           ELSE IF NotOwner(user.email, r.tokenEmail)
           THEN req' = [req EXCEPT ![s] =
                           [Respond(s, 403, "Forbidden!") EXCEPT
                               !.policyRan = TRUE]]
           ELSE \E outcome \in StoreOutcomes :
                   LET q == [r EXCEPT !.reads = @ + 1, !.policyRan = TRUE]
                   IN  IF outcome = "throw"
                       THEN req' = [req EXCEPT ![s] =
                               [q EXCEPT !.pc = "done",
                                         !.resp = Response(500, "Server error")]]
                       ELSE IF UserExists(user.email)
                       THEN req' = [req EXCEPT ![s] =
                               [q EXCEPT !.pc = "done",
                                         !.resp = Response(200,
                                             "User already exists")]]
                       ELSE req' = [req EXCEPT ![s] = [q EXCEPT !.pc = "h2"]]
    /\ UNCHANGED <<store, mode, sessions>>

\* The document POST /users stores: the request body as sent.
UserDocument(body) ==
    [email |-> body.email, role |-> body.role, status |-> body.status,
     chefId |-> Undefined]

\* POST /users, its insertOne.
PostUsersInsert(s) ==
    /\ req[s].route = "POST /users" /\ req[s].pc = "h2"
    /\ \E outcome \in StoreOutcomes :
          IF outcome = "throw"
          THEN /\ req' = [req EXCEPT ![s] = Respond(s, 500, "Server error")]
               /\ UNCHANGED users
          ELSE /\ users' = Append(users, UserDocument(req[s].body))
               /\ req' = [req EXCEPT ![s] =
                             [Respond(s, 200, "insertedId") EXCEPT
                                 !.writes = @ + 1]]
    /\ UNCHANGED <<roleRequests, meals, orders, favorites, reviews, payments,
                 mode, sessions>>

\* The update of PATCH /users/make-fraud/:email: $set status on the first
\* record with that email.
\* Mutant: the update filter of make-fraud matches every user.
SetFraud_All(coll, email) ==
    [i \in 1..Len(coll) |-> [coll[i] EXCEPT !.status = "fraud"]]

SetFraud(coll, email) ==
    LET i == FirstMatch(UsersWith(coll, email))
    IN  IF i = 0 THEN coll ELSE [coll EXCEPT ![i].status = "fraud"]

\* PATCH /users/make-fraud/:email (after verifyJWT, verifyAdmin).
MakeFraud(s) ==
    /\ req[s].route = "PATCH /users/make-fraud/:email" /\ req[s].pc = "h1"
    /\ \E outcome \in StoreOutcomes :
          IF outcome = "throw"
          THEN /\ \E resp \in UnhandledOutcomes :
                     req' = [req EXCEPT ![s] =
                                [req[s] EXCEPT !.pc = "done", !.resp = resp]]
               /\ UNCHANGED users
          ELSE /\ users' = SetFraud(users, req[s].params.email)
               /\ req' = [req EXCEPT ![s] =
                             [Respond(s, 200, "success") EXCEPT !.writes = @ + 1]]
    /\ UNCHANGED <<roleRequests, meals, orders, favorites, reviews, payments,
                 mode, sessions>>

----------------------------------------------------------------------------
(* Meals and orders: the fraud gate *)

\* Mutant: the fraud gate of POST /meals forgets the status.
FraudChef_NoStatus(user) == user.role = "chef" /\ user.status = "normal"

\* The fraud gate of POST /meals: a chef marked as fraud.
FraudChef(user) == user.role = "chef" /\ user.status = "fraud"

\* Mutant: the fraud gate of POST /orders blocks every role.
FraudUser_AnyRole(user) == user.status = "fraud"

\* The fraud gate of POST /orders: an ordinary user marked as fraud.
FraudUser(user) == user.status = "fraud" /\ user.role = "user"

\* POST /meals, its findOne and the fraud check (after verifyJWT, verifyChef).
\* Nothing catches a throw here; user.role on a missing record throws too.
PostMealsFind(s) ==
    /\ req[s].route = "POST /meals" /\ req[s].pc = "h1"
    /\ \E outcome \in StoreOutcomes :
          LET user == FindUser(req[s].tokenEmail)
              r == [req[s] EXCEPT !.reads = @ + 1, !.policyRan = TRUE,
                                  !.user = user]
          IN  IF outcome = "throw" \/ user = NoUser
              THEN \E resp \in UnhandledOutcomes :
                      req' = [req EXCEPT ![s] =
                                 [r EXCEPT !.pc = "done", !.resp = resp]]
              ELSE IF FraudChef(user)
              THEN req' = [req EXCEPT ![s] =
                              [r EXCEPT !.pc = "done",
                                        !.resp = Response(403, "FRAUD_USER")]]
              ELSE req' = [req EXCEPT ![s] = [r EXCEPT !.pc = "h2"]]
    /\ UNCHANGED <<store, mode, sessions>>

\* POST /meals, its insertOne: the body as sent.
PostMealsInsert(s) ==
    /\ req[s].route = "POST /meals" /\ req[s].pc = "h2"
    /\ \E outcome \in StoreOutcomes :
          IF outcome = "throw"
          THEN /\ \E resp \in UnhandledOutcomes :
                     req' = [req EXCEPT ![s] =
                                [req[s] EXCEPT !.pc = "done", !.resp = resp]]
               /\ UNCHANGED meals
          ELSE /\ meals' = Append(meals,
                               [chefEmail |-> req[s].body.chefEmail,
                                userEmail |-> req[s].body.userEmail,
                                by |-> req[s].tokenEmail])
               /\ req' = [req EXCEPT ![s] =
                             [Respond(s, 200, "insertedId") EXCEPT
                                 !.writes = @ + 1]]
    /\ UNCHANGED <<users, roleRequests, orders, favorites, reviews, payments,
                 mode, sessions>>

\* POST /orders, its findOne and the fraud check (after verifyJWT only).
PostOrdersFind(s) ==
    /\ req[s].route = "POST /orders" /\ req[s].pc = "h1"
    /\ \E outcome \in StoreOutcomes :
          LET user == FindUser(req[s].tokenEmail)
              r == [req[s] EXCEPT !.reads = @ + 1, !.policyRan = TRUE,
                                  !.user = user]
          IN  IF outcome = "throw" \/ user = NoUser
              THEN \E resp \in UnhandledOutcomes :
                      req' = [req EXCEPT ![s] =
                                 [r EXCEPT !.pc = "done", !.resp = resp]]
              ELSE IF FraudUser(user)
              THEN req' = [req EXCEPT ![s] =
                              [r EXCEPT !.pc = "done",
                                        !.resp = Response(403, "FRAUD_USER")]]
              ELSE req' = [req EXCEPT ![s] = [r EXCEPT !.pc = "h2"]]
    /\ UNCHANGED <<store, mode, sessions>>

\* POST /orders, its insertOne: the body with both statuses set to pending.
PostOrdersInsert(s) ==
    /\ req[s].route = "POST /orders" /\ req[s].pc = "h2"
    /\ \E outcome \in StoreOutcomes :
          IF outcome = "throw"
          THEN /\ \E resp \in UnhandledOutcomes :
                     req' = [req EXCEPT ![s] =
                                [req[s] EXCEPT !.pc = "done", !.resp = resp]]
               /\ UNCHANGED orders
          ELSE /\ orders' = Append(orders,
                                [userEmail |-> req[s].body.userEmail,
                                 chefEmail |-> req[s].body.chefEmail,
                                 orderStatus |-> "pending",
                                 paymentStatus |-> "pending",
                                 by |-> req[s].tokenEmail])
               /\ req' = [req EXCEPT ![s] =
                             [Respond(s, 200, "insertedId") EXCEPT
                                 !.writes = @ + 1]]
    /\ UNCHANGED <<users, roleRequests, meals, favorites, reviews, payments,
                 mode, sessions>>

----------------------------------------------------------------------------
(* Favorites and reviews *)

\* String(favorite.mealId).  A meal id sent as the number 7 is written "#7",
\* one sent as the text "7" is written "7"; both are stored as "7".
String(v) == IF v = "#7" THEN "7" ELSE v

\* Mutant: the duplicate check of POST /favorites never finds the favorite.
FavoriteExists_Never(userEmail, mealId) == FALSE

\* exists, in POST /favorites: findOne({ userEmail, mealId }) found one.
FavoriteExists(userEmail, mealId) ==
    \E i \in 1..Len(favorites) :
        /\ favorites[i].userEmail = userEmail
        /\ favorites[i].mealId = mealId

FavoriteIdx(userEmail, mealId) ==
    FirstMatch({i \in 1..Len(favorites) :
                   /\ favorites[i].userEmail = userEmail
                   /\ favorites[i].mealId = mealId})

\* POST /favorites, up to its findOne.
PostFavoritesFind(s) ==
    /\ req[s].route = "POST /favorites" /\ req[s].pc = "h1"
    /\ LET r == req[s]
           favorite == r.body
       IN  IF Falsy(favorite.userEmail) \/ Falsy(favorite.mealId)
           THEN req' = [req EXCEPT ![s] =
                           Respond(s, 400, "userEmail and mealId required")]
           ELSE IF NotOwner(favorite.userEmail, r.tokenEmail)
           THEN req' = [req EXCEPT ![s] =
                           [Respond(s, 403, "Forbidden!") EXCEPT
                               !.policyRan = TRUE]]
           ELSE \E outcome \in StoreOutcomes :
                   LET q == [r EXCEPT !.reads = @ + 1, !.policyRan = TRUE]
                   IN  IF outcome = "throw"
                       THEN req' = [req EXCEPT ![s] =
                               [q EXCEPT !.pc = "done",
                                         !.resp = Response(500,
                                             "Failed to add favorite")]]
                       ELSE IF FavoriteExists(favorite.userEmail,
                                              String(favorite.mealId))
                       THEN req' = [req EXCEPT ![s] =
                               [q EXCEPT !.pc = "done",
                                         !.resp = Response(200, "exists")]]
                       ELSE req' = [req EXCEPT ![s] = [q EXCEPT !.pc = "h2"]]
    /\ UNCHANGED <<store, mode, sessions>>

\* POST /favorites, its insertOne.
PostFavoritesInsert(s) ==
    /\ req[s].route = "POST /favorites" /\ req[s].pc = "h2"
    /\ \E outcome \in StoreOutcomes :
          IF outcome = "throw"
          THEN /\ req' = [req EXCEPT ![s] =
                             Respond(s, 500, "Failed to add favorite")]
               /\ UNCHANGED favorites
          ELSE /\ favorites' = Append(favorites,
                                   [userEmail |-> req[s].body.userEmail,
                                    mealId |-> String(req[s].body.mealId),
                                    by |-> req[s].tokenEmail])
               /\ req' = [req EXCEPT ![s] =
                             [Respond(s, 200, "success") EXCEPT !.writes = @ + 1]]
    /\ UNCHANGED <<users, roleRequests, meals, orders, reviews, payments,
                 mode, sessions>>

\* POST /reviews: 400 without foodId, 403 when a reviewerEmail is given and
\* is not the principal's, then insertOne.
PostReviews(s) ==
    /\ req[s].route = "POST /reviews" /\ req[s].pc = "h1"
    /\ LET r == req[s]
           review == r.body
       IN  IF Falsy(review.foodId)
           THEN /\ req' = [req EXCEPT ![s] = Respond(s, 400, "foodId required")]
                /\ UNCHANGED reviews
           ELSE IF ~Falsy(review.reviewerEmail)
                   /\ NotOwner(review.reviewerEmail, r.tokenEmail)
           THEN /\ req' = [req EXCEPT ![s] =
                              [Respond(s, 403, "Forbidden!") EXCEPT
                                  !.policyRan = TRUE]]
                /\ UNCHANGED reviews
           ELSE \E outcome \in StoreOutcomes :
                   IF outcome = "throw"
                   THEN /\ req' = [req EXCEPT ![s] =
                                      [Respond(s, 500, "Failed to submit review")
                                          EXCEPT !.policyRan = TRUE]]
                        /\ UNCHANGED reviews
                   ELSE /\ reviews' = Append(reviews,
                                 [reviewerEmail |-> review.reviewerEmail,
                                  foodId |-> review.foodId,
                                  comment |-> review.comment,
                                  by |-> r.tokenEmail])
                        /\ req' = [req EXCEPT ![s] =
                                      [Respond(s, 200, "insertedId") EXCEPT
                                          !.policyRan = TRUE, !.writes = @ + 1]]
    /\ UNCHANGED <<users, roleRequests, meals, orders, favorites,
                 payments, mode, sessions>>

----------------------------------------------------------------------------
(* Role requests *)

\* The uniqueness constraint of the roleRequests collection: insertOne fails
\* with duplicate-key error 11000 while the identity has a pending request.
DuplicateKey(doc) ==
    \E i \in 1..Len(roleRequests) :
        /\ roleRequests[i].userEmail = doc.userEmail
        /\ roleRequests[i].requestStatus = "pending"

\* Mutant: the catch block of POST /role-requests answers 500 for every error.
RoleRequestError_Always500(code) ==
    Response(500, "Failed to create role request")

\* What the catch block of POST /role-requests answers for an error code.
RoleRequestError(code) ==
    IF code = 11000
    THEN Response(409, "You already submitted a request.")
    ELSE Response(500, "Failed to create role request")

\* The document POST /role-requests stores: the body, created pending.
RoleRequestDocument(body) ==
    [userEmail |-> body.userEmail, requestType |-> body.requestType,
     requestStatus |-> "pending"]

\* POST /role-requests: 400 on a missing field, 403 when userEmail is not
\* the principal's, then insertOne; a duplicate-key error is answered 409.
PostRoleRequests(s) ==
    /\ req[s].route = "POST /role-requests" /\ req[s].pc = "h1"
    /\ LET r == req[s]
           body == r.body
       IN  IF Falsy(body.userEmail) \/ Falsy(body.requestType)
           THEN /\ req' = [req EXCEPT ![s] = Respond(s, 400, "Missing fields")]
                /\ UNCHANGED roleRequests
           ELSE IF NotOwner(body.userEmail, r.tokenEmail)
           THEN /\ req' = [req EXCEPT ![s] =
                              [Respond(s, 403, "Forbidden!") EXCEPT
                                  !.policyRan = TRUE]]
                /\ UNCHANGED roleRequests
           ELSE \E outcome \in StoreOutcomes :
                   LET q == [r EXCEPT !.policyRan = TRUE, !.pc = "done"]
                       doc == RoleRequestDocument(body)
                   IN  IF outcome = "throw"
                       THEN /\ req' = [req EXCEPT ![s] =
                                   [q EXCEPT !.resp = RoleRequestError(0)]]
                            /\ UNCHANGED roleRequests
                       ELSE IF DuplicateKey(doc)
                       THEN /\ req' = [req EXCEPT ![s] =
                                   [q EXCEPT !.resp = RoleRequestError(11000)]]
                            /\ UNCHANGED roleRequests
                       ELSE /\ roleRequests' = Append(roleRequests, doc)
                            /\ req' = [req EXCEPT ![s] =
                                   [q EXCEPT !.resp = Response(200, "success"),
                                             !.writes = @ + 1]]
    /\ UNCHANGED <<users, meals, orders, favorites, reviews, payments,
                 mode, sessions>>

\* findOne({ _id: new ObjectId(id) }) on roleRequests.
FindRequest(id) ==
    IF id \in 1..Len(roleRequests) THEN roleRequests[id] ELSE NoRequest

\* Accept and reject, up to findOne on roleRequests (after verifyJWT,
\* verifyAdmin): new ObjectId(id) throws on a malformed id, caught as 500.
FindRoleRequest(s) ==
    /\ req[s].route \in {"PATCH /role-requests/accept/:id",
                         "PATCH /role-requests/reject/:id"}
    /\ req[s].pc = "h1"
    /\ LET r == req[s]
           id == r.params.id
       IN  IF ~ObjectIdIsValid(id)
           THEN req' = [req EXCEPT ![s] = Respond(s, 500, "Server Error")]
           ELSE \E outcome \in StoreOutcomes :
                   LET q == [r EXCEPT !.reads = @ + 1,
                                      !.request = FindRequest(id)]
                   IN  IF outcome = "throw"
                       THEN req' = [req EXCEPT ![s] =
                               [r EXCEPT !.reads = @ + 1, !.pc = "done",
                                         !.resp = Response(500, "Server Error")]]
                       ELSE IF q.request = NoRequest
                       THEN req' = [req EXCEPT ![s] =
                               [q EXCEPT !.pc = "done",
                                         !.resp = Response(404,
                                             "Request not found")]]
                       ELSE req' = [req EXCEPT ![s] = [q EXCEPT !.pc = "h2"]]
    /\ UNCHANGED <<store, mode, sessions>>

\* Accept, its findOne on users: 404 without a record for request.userEmail.
AcceptFindUser(s) ==
    /\ req[s].route = "PATCH /role-requests/accept/:id" /\ req[s].pc = "h2"
    /\ \E outcome \in StoreOutcomes :
          LET user == FindUser(req[s].request.userEmail)
              r == [req[s] EXCEPT !.reads = @ + 1]
          IN  IF outcome = "throw"
              THEN req' = [req EXCEPT ![s] =
                              [r EXCEPT !.pc = "done",
                                        !.resp = Response(500, "Server Error")]]
              ELSE IF user = NoUser
              THEN req' = [req EXCEPT ![s] =
                              [r EXCEPT !.pc = "done",
                                        !.resp = Response(404, "User not found")]]
              ELSE req' = [req EXCEPT ![s] = [r EXCEPT !.user = user,
                                                       !.pc = "h3"]]
    /\ UNCHANGED <<store, mode, sessions>>

\* "chef-" + Math.floor(1000 + Math.random() * 9000), for the least and the
\* greatest draw of Math.random().
ChefIds == {"chef-1000", "chef-9999"}

\* Mutant: accept never generates a chefId.
UpdateFields_NoChefId(request, chefId) ==
    [role |-> request.requestType, chefId |-> Undefined, setChefId |-> FALSE]

\* updateFields of accept: the requested role, and a chefId for a chef.
UpdateFields(request, chefId) ==
    IF request.requestType = "chef"
    THEN [role |-> request.requestType, chefId |-> chefId, setChefId |-> TRUE]
    ELSE [role |-> request.requestType, chefId |-> Undefined,
          setChefId |-> FALSE]

\* updateOne({ email }, { $set: updateFields }) on users.
\* Mutant: accept also resets the user's status.
SetUserFields_ResetStatus(coll, email, updateFields) ==
    LET i == FirstMatch(UsersWith(coll, email))
    IN  IF i = 0 THEN coll
        ELSE [coll EXCEPT ![i] =
                 [@ EXCEPT !.role = updateFields.role,
                           !.status = "normal",
                           !.chefId = IF updateFields.setChefId
                                      THEN updateFields.chefId ELSE @]]

SetUserFields(coll, email, updateFields) ==
    LET i == FirstMatch(UsersWith(coll, email))
    IN  IF i = 0 THEN coll
        ELSE [coll EXCEPT ![i] =
                 [@ EXCEPT !.role = updateFields.role,
                           !.chefId = IF updateFields.setChefId
                                      THEN updateFields.chefId ELSE @]]

\* Mutant: accept swallows a failed user update and goes on to mark the
\* request approved.
AcceptUpdateUser_IgnoreFailure(s) ==
    /\ req[s].route = "PATCH /role-requests/accept/:id" /\ req[s].pc = "h3"
    /\ \E outcome \in StoreOutcomes, chefId \in ChefIds :
          IF outcome = "throw"
          THEN /\ req' = [req EXCEPT ![s] =
                             [req[s] EXCEPT !.userUpdateFailed = TRUE,
                                            !.pc = "h4"]]
               /\ UNCHANGED users
          ELSE /\ users' = SetUserFields(users, req[s].request.userEmail,
                                         UpdateFields(req[s].request, chefId))
               /\ req' = [req EXCEPT ![s] =
                             [req[s] EXCEPT !.writes = @ + 1,
                                            !.userUpdated = TRUE,
                                            !.pc = "h4"]]
    /\ UNCHANGED <<roleRequests, meals, orders, favorites, reviews, payments,
                 mode, sessions>>

\* Accept, its updateOne on users.
AcceptUpdateUser(s) ==
    /\ req[s].route = "PATCH /role-requests/accept/:id" /\ req[s].pc = "h3"
    /\ \E outcome \in StoreOutcomes, chefId \in ChefIds :
          IF outcome = "throw"
          THEN /\ req' = [req EXCEPT ![s] =
                             [Respond(s, 500, "Server Error") EXCEPT
                                 !.userUpdateFailed = TRUE]]
               /\ UNCHANGED users
          ELSE /\ users' = SetUserFields(users, req[s].request.userEmail,
                                         UpdateFields(req[s].request, chefId))
               /\ req' = [req EXCEPT ![s] =
                             [req[s] EXCEPT !.writes = @ + 1,
                                            !.userUpdated = TRUE,
                                            !.pc = "h4"]]
    /\ UNCHANGED <<roleRequests, meals, orders, favorites, reviews, payments,
                 mode, sessions>>

\* Mutant: the update filter matches every role request.
SetRequestStatus_All(coll, id, requestStatus) ==
    [i \in 1..Len(coll) |-> [coll[i] EXCEPT !.requestStatus = requestStatus]]

\* updateOne({ _id }, { $set: { requestStatus } }) on roleRequests.
SetRequestStatus(coll, id, requestStatus) ==
    IF id \in 1..Len(coll)
    THEN [coll EXCEPT ![id].requestStatus = requestStatus]
    ELSE coll

\* Accept, its updateOne on roleRequests, then the success response.
AcceptUpdateRequest(s) ==
    /\ req[s].route = "PATCH /role-requests/accept/:id" /\ req[s].pc = "h4"
    /\ \E outcome \in StoreOutcomes :
          IF outcome = "throw"
          THEN /\ req' = [req EXCEPT ![s] = Respond(s, 500, "Server Error")]
               /\ UNCHANGED roleRequests
          ELSE /\ roleRequests' =
                     SetRequestStatus(roleRequests, req[s].params.id, "approved")
               /\ req' = [req EXCEPT ![s] =
                             [Respond(s, 200, "Request Approved!") EXCEPT
                                 !.writes = @ + 1, !.approved = TRUE]]
    /\ UNCHANGED <<users, meals, orders, favorites, reviews, payments,
                 mode, sessions>>

\* Reject, its updateOne on roleRequests, then the success response.
RejectUpdateRequest(s) ==
    /\ req[s].route = "PATCH /role-requests/reject/:id" /\ req[s].pc = "h2"
    /\ \E outcome \in StoreOutcomes :
          IF outcome = "throw"
          THEN /\ req' = [req EXCEPT ![s] = Respond(s, 500, "Server Error")]
               /\ UNCHANGED roleRequests
          ELSE /\ roleRequests' =
                     SetRequestStatus(roleRequests, req[s].params.id, "rejected")
               /\ req' = [req EXCEPT ![s] =
                             [Respond(s, 200, "Request Rejected!") EXCEPT
                                 !.writes = @ + 1]]
    /\ UNCHANGED <<users, meals, orders, favorites, reviews, payments,
                 mode, sessions>>

----------------------------------------------------------------------------
(* Routes keyed by a store identifier: meals, orders, favorites *)

\* Mutant: the identifier check lets every identifier through.
InvalidId_Never(id) == FALSE

\* if (!ObjectId.isValid(id)), the guard of the routes that check the
\* identifier before they use it.
InvalidId(id) == ~ObjectIdIsValid(id)

\* findOne({ _id: new ObjectId(id) }): the document, or none when no stored
\* document has the identifier.
FindById(coll, id, none) ==
    IF id \in 1..Len(coll) THEN coll[id] ELSE none

\* deleteOne({ _id: new ObjectId(id) }).
DeleteById(coll, id, none) ==
    IF id \in 1..Len(coll) THEN [coll EXCEPT ![id] = none] ELSE coll

\* A fetch by identifier: 400 on an invalid identifier, before any store
\* call; 404 when findOne finds nothing; otherwise the document is sent.
FetchById(s, coll, none, failed) ==
    LET r == req[s]
        id == r.params.id
    IN  IF InvalidId(id)
        THEN req' = [req EXCEPT ![s] = Respond(s, 400, "Invalid id")]
        ELSE \E outcome \in StoreOutcomes :
                LET q == [r EXCEPT !.reads = @ + 1, !.pc = "done"]
                    doc == FindById(coll, id, none)
                IN  IF outcome = "throw"
                    THEN req' = [req EXCEPT ![s] =
                                    [q EXCEPT !.resp = Response(500, failed)]]
                    ELSE IF doc = none
                    THEN req' = [req EXCEPT ![s] =
                                    [q EXCEPT !.resp = Response(404, "Not found")]]
                    ELSE req' = [req EXCEPT ![s] =
                                    [q EXCEPT !.resp = Response(200, "document"),
                                              !.sent = <<doc>>]]

\* GET /meals/:id (public).
GetMeal(s) ==
    /\ req[s].route = "GET /meals/:id" /\ req[s].pc = "h1"
    /\ FetchById(s, meals, NoMeal, "Failed to fetch meal")
    /\ UNCHANGED <<store, mode, sessions>>

\* GET /orders/:id (public).
GetOrder(s) ==
    /\ req[s].route = "GET /orders/:id" /\ req[s].pc = "h1"
    /\ FetchById(s, orders, NoOrder, "Server Error")
    /\ UNCHANGED <<store, mode, sessions>>

\* updateOne({ _id }, { $set: { orderStatus } }) on orders.
SetOrderStatus(coll, id, orderStatus) ==
    IF id \in 1..Len(coll) /\ coll[id] # NoOrder
    THEN [coll EXCEPT ![id].orderStatus = orderStatus]
    ELSE coll

\* PATCH /orders/:id (after verifyJWT, verifyChef): new ObjectId(id) throws on
\* a malformed id inside the try block, answered 500; no check of the order's
\* chefEmail.
PatchOrder(s) ==
    /\ req[s].route = "PATCH /orders/:id" /\ req[s].pc = "h1"
    /\ LET r == req[s]
           id == r.params.id
       IN  IF ~ObjectIdIsValid(id)
           THEN /\ req' = [req EXCEPT ![s] = Respond(s, 500, "Server Error")]
                /\ UNCHANGED orders
           ELSE \E outcome \in StoreOutcomes :
                   IF outcome = "throw"
                   THEN /\ req' = [req EXCEPT ![s] =
                                      Respond(s, 500, "Server Error")]
                        /\ UNCHANGED orders
                   ELSE /\ orders' = SetOrderStatus(orders, id,
                                                    r.body.orderStatus)
                        /\ req' = [req EXCEPT ![s] =
                                      [Respond(s, 200, "result") EXCEPT
                                          !.writes = @ + 1]]
    /\ UNCHANGED <<users, roleRequests, meals, favorites, reviews, payments,
                 mode, sessions>>

\* DELETE /meals/:id (after verifyJWT, verifyChef): no try/catch, no check of
\* the meal's owner.
DeleteMeal(s) ==
    /\ req[s].route = "DELETE /meals/:id" /\ req[s].pc = "h1"
    /\ LET r == req[s]
           id == r.params.id
       IN  \E outcome \in StoreOutcomes :
              IF ~ObjectIdIsValid(id) \/ outcome = "throw"
              THEN /\ \E resp \in UnhandledOutcomes :
                         req' = [req EXCEPT ![s] =
                                    [r EXCEPT !.pc = "done", !.resp = resp]]
                   /\ UNCHANGED meals
              ELSE /\ meals' = DeleteById(meals, id, NoMeal)
                   /\ req' = [req EXCEPT ![s] =
                                 [Respond(s, 200, "result") EXCEPT
                                     !.writes = @ + 1]]
    /\ UNCHANGED <<users, roleRequests, orders, favorites, reviews, payments,
                 mode, sessions>>

\* updateOne({ _id }, { $set: updatedMeal }) on meals: every field the body
\* carries is set, the owner fields included.
SetMealFields(coll, id, updatedMeal) ==
    IF id \in 1..Len(coll) /\ coll[id] # NoMeal
    THEN [coll EXCEPT ![id] =
             [@ EXCEPT !.chefEmail = IF updatedMeal.chefEmail = Undefined
                                     THEN @ ELSE updatedMeal.chefEmail,
                       !.userEmail = IF updatedMeal.userEmail = Undefined
                                     THEN @ ELSE updatedMeal.userEmail]]
    ELSE coll

\* PATCH /meals/:id (after verifyJWT, verifyChef): no try/catch, no check of
\* the meal's owner.
PatchMeal(s) ==
    /\ req[s].route = "PATCH /meals/:id" /\ req[s].pc = "h1"
    /\ LET r == req[s]
           id == r.params.id
       IN  \E outcome \in StoreOutcomes :
              IF ~ObjectIdIsValid(id) \/ outcome = "throw"
              THEN /\ \E resp \in UnhandledOutcomes :
                         req' = [req EXCEPT ![s] =
                                    [r EXCEPT !.pc = "done", !.resp = resp]]
                   /\ UNCHANGED meals
              ELSE /\ meals' = SetMealFields(meals, id, r.body)
                   /\ req' = [req EXCEPT ![s] =
                                 [Respond(s, 200, "result") EXCEPT
                                     !.writes = @ + 1]]
    /\ UNCHANGED <<users, roleRequests, orders, favorites, reviews, payments,
                 mode, sessions>>

\* DELETE /favorites/:id: no middleware, no try/catch, no check of the
\* favorite's userEmail.
DeleteFavorite(s) ==
    /\ req[s].route = "DELETE /favorites/:id" /\ req[s].pc = "h1"
    /\ LET r == req[s]
           id == r.params.id
       IN  \E outcome \in StoreOutcomes :
              IF ~ObjectIdIsValid(id) \/ outcome = "throw"
              THEN /\ \E resp \in UnhandledOutcomes :
                         req' = [req EXCEPT ![s] =
                                    [r EXCEPT !.pc = "done", !.resp = resp]]
                   /\ UNCHANGED favorites
              ELSE /\ favorites' = DeleteById(favorites, id, NoFavorite)
                   /\ req' = [req EXCEPT ![s] =
                                 [Respond(s, 200, "result") EXCEPT
                                     !.writes = @ + 1]]
    /\ UNCHANGED <<users, roleRequests, meals, orders, reviews, payments,
                 mode, sessions>>

\* updateOne({ _id: new ObjectId(orderId) }, { $set: { paymentStatus } }).
SetPaymentStatus(coll, id, paymentStatus) ==
    IF id \in 1..Len(coll) /\ coll[id] # NoOrder
    THEN [coll EXCEPT ![id].paymentStatus = paymentStatus]
    ELSE coll

\* POST /payment-success, its updateOne on orders: no middleware and no
\* try/catch; new ObjectId(orderId) throws on a malformed identifier.
PaymentSuccessUpdate(s) ==
    /\ req[s].route = "POST /payment-success" /\ req[s].pc = "h1"
    /\ LET r == req[s]
           orderId == r.body.orderId
       IN  \E outcome \in StoreOutcomes :
              IF ~ObjectIdIsValid(orderId) \/ outcome = "throw"
              THEN /\ \E resp \in UnhandledOutcomes :
                         req' = [req EXCEPT ![s] =
                                    [r EXCEPT !.pc = "done", !.resp = resp]]
                   /\ UNCHANGED orders
              ELSE /\ orders' = SetPaymentStatus(orders, orderId, "paid")
                   /\ req' = [req EXCEPT ![s] =
                                 [r EXCEPT !.writes = @ + 1, !.pc = "h2"]]
    /\ UNCHANGED <<users, roleRequests, meals, favorites, reviews, payments,
                 mode, sessions>>

\* POST /payment-success, its insertOne on payments, then the response.
PaymentSuccessInsert(s) ==
    /\ req[s].route = "POST /payment-success" /\ req[s].pc = "h2"
    /\ \E outcome \in StoreOutcomes :
          IF outcome = "throw"
          THEN /\ \E resp \in UnhandledOutcomes :
                     req' = [req EXCEPT ![s] =
                                [req[s] EXCEPT !.pc = "done", !.resp = resp]]
               /\ UNCHANGED payments
          ELSE /\ payments' = Append(payments,
                                  [orderId |-> req[s].body.orderId])
               /\ req' = [req EXCEPT ![s] =
                             [Respond(s, 200, "success") EXCEPT
                                 !.writes = @ + 1]]
    /\ UNCHANGED <<users, roleRequests, meals, orders, favorites, reviews,
                 mode, sessions>>

----------------------------------------------------------------------------
(* Reviews: update and delete *)

\* Mutant: the owner check of the review routes lets every principal through.
NotReviewer_Never(review, tokenEmail) == FALSE

\* review.reviewerEmail !== req.tokenEmail, the owner check of PATCH and
\* DELETE /reviews/:id.
NotReviewer(review, tokenEmail) == review.reviewerEmail # tokenEmail

\* What the catch block of a review route answers.
ReviewFailed(route) ==
    IF route = "DELETE /reviews/:id"
    THEN Response(500, "Failed to delete review")
    ELSE Response(500, "Failed to update review")

\* PATCH and DELETE /reviews/:id, up to the owner check (after verifyJWT):
\* 400 on an invalid id, 404 without the review, 403 for another principal.
FindReview(s) ==
    /\ req[s].route \in {"DELETE /reviews/:id", "PATCH /reviews/:id"}
    /\ req[s].pc = "h1"
    /\ LET r == req[s]
           id == r.params.id
       IN  IF InvalidId(id)
           THEN req' = [req EXCEPT ![s] = Respond(s, 400, "Invalid review id")]
           ELSE \E outcome \in StoreOutcomes :
                   LET q == [r EXCEPT !.reads = @ + 1]
                       review == FindById(reviews, id, NoReview)
                   IN  IF outcome = "throw"
                       THEN req' = [req EXCEPT ![s] =
                               [q EXCEPT !.pc = "done",
                                         !.resp = ReviewFailed(r.route)]]
                       ELSE IF review = NoReview
                       THEN req' = [req EXCEPT ![s] =
                               [q EXCEPT !.pc = "done",
                                         !.resp = Response(404,
                                             "Review not found")]]
                       ELSE IF NotReviewer(review, r.tokenEmail)
                       THEN req' = [req EXCEPT ![s] =
                               [q EXCEPT !.pc = "done", !.policyRan = TRUE,
                                         !.resp = Response(403, "Forbidden!")]]
                       ELSE req' = [req EXCEPT ![s] =
                               [q EXCEPT !.policyRan = TRUE, !.pc = "h2"]]
    /\ UNCHANGED <<store, mode, sessions>>

\* DELETE /reviews/:id, its deleteOne.
DeleteReview(s) ==
    /\ req[s].route = "DELETE /reviews/:id" /\ req[s].pc = "h2"
    /\ \E outcome \in StoreOutcomes :
          IF outcome = "throw"
          THEN /\ req' = [req EXCEPT ![s] =
                             [req[s] EXCEPT !.pc = "done",
                                 !.resp = ReviewFailed(req[s].route)]]
               /\ UNCHANGED reviews
          ELSE /\ reviews' = DeleteById(reviews, req[s].params.id, NoReview)
               /\ req' = [req EXCEPT ![s] =
                             [Respond(s, 200, "success") EXCEPT !.writes = @ + 1]]
    /\ UNCHANGED <<users, roleRequests, meals, orders, favorites,
                 payments, mode, sessions>>

\* updateOne({ _id }, { $set: { rating, comment, date } }) on reviews.
SetReviewFields(coll, id, body) ==
    IF id \in 1..Len(coll) /\ coll[id] # NoReview
    THEN [coll EXCEPT ![id].comment = body.comment]
    ELSE coll

\* PATCH /reviews/:id, its updateOne.
UpdateReview(s) ==
    /\ req[s].route = "PATCH /reviews/:id" /\ req[s].pc = "h2"
    /\ \E outcome \in StoreOutcomes :
          IF outcome = "throw"
          THEN /\ req' = [req EXCEPT ![s] =
                             [req[s] EXCEPT !.pc = "done",
                                 !.resp = ReviewFailed(req[s].route)]]
               /\ UNCHANGED reviews
          ELSE /\ reviews' = SetReviewFields(reviews, req[s].params.id,
                                             req[s].body)
               /\ req' = [req EXCEPT ![s] =
                             [Respond(s, 200, "success") EXCEPT !.writes = @ + 1]]
    /\ UNCHANGED <<users, roleRequests, meals, orders, favorites,
                 payments, mode, sessions>>

----------------------------------------------------------------------------
(* Administrator's listings *)

\* find().sort({ _id: -1 }).toArray(): the documents, newest first.
NewestFirst(coll) == [i \in 1..Len(coll) |-> coll[Len(coll) + 1 - i]]

\* GET /users (after verifyJWT, verifyAdmin): no try/catch.
GetUsers(s) ==
    /\ req[s].route = "GET /users" /\ req[s].pc = "h1"
    /\ \E outcome \in StoreOutcomes :
          LET r == [req[s] EXCEPT !.reads = @ + 1, !.pc = "done"]
          IN  IF outcome = "throw"
              THEN \E resp \in UnhandledOutcomes :
                      req' = [req EXCEPT ![s] = [r EXCEPT !.resp = resp]]
              ELSE req' = [req EXCEPT ![s] =
                              [r EXCEPT !.resp = Response(200, "users"),
                                        !.sent = NewestFirst(users)]]
    /\ UNCHANGED <<store, mode, sessions>>

\* GET /role-requests (after verifyJWT, verifyAdmin).
GetRoleRequests(s) ==
    /\ req[s].route = "GET /role-requests" /\ req[s].pc = "h1"
    /\ \E outcome \in StoreOutcomes :
          LET r == [req[s] EXCEPT !.reads = @ + 1, !.pc = "done"]
          IN  IF outcome = "throw"
              THEN req' = [req EXCEPT ![s] =
                              [r EXCEPT !.resp = Response(500,
                                            "Failed to fetch role requests")]]
              ELSE req' = [req EXCEPT ![s] =
                              [r EXCEPT !.resp = Response(200, "requests"),
                                        !.sent = NewestFirst(roleRequests)]]
    /\ UNCHANGED <<store, mode, sessions>>

\* GET /admin/statistics, its countDocuments on users (after verifyJWT,
\* verifyAdmin): no try/catch.
StatisticsCount(s) ==
    /\ req[s].route = "GET /admin/statistics" /\ req[s].pc = "h1"
    /\ \E outcome \in StoreOutcomes :
          LET r == [req[s] EXCEPT !.reads = @ + 1]
          IN  IF outcome = "throw"
              THEN \E resp \in UnhandledOutcomes :
                      req' = [req EXCEPT ![s] =
                                 [r EXCEPT !.pc = "done", !.resp = resp]]
              ELSE req' = [req EXCEPT ![s] =
                              [r EXCEPT !.totalUsers = Len(users),
                                        !.pc = "h2"]]
    /\ UNCHANGED <<store, mode, sessions>>

\* orders.filter((o) => o.orderStatus === status).length
OrdersWithStatus(coll, status) ==
    Cardinality({i \in 1..Len(coll) : coll[i].orderStatus = status})

\* GET /admin/statistics, its find on orders, then the figures (the sum of
\* the paid orders' prices is left out: the orders here carry no price).
StatisticsOrders(s) ==
    /\ req[s].route = "GET /admin/statistics" /\ req[s].pc = "h2"
    /\ \E outcome \in StoreOutcomes :
          LET r == [req[s] EXCEPT !.reads = @ + 1, !.pc = "done"]
          IN  IF outcome = "throw"
              THEN \E resp \in UnhandledOutcomes :
                      req' = [req EXCEPT ![s] = [r EXCEPT !.resp = resp]]
              ELSE req' = [req EXCEPT ![s] =
                      [r EXCEPT !.resp = Response(200, "statistics"),
                                !.sent =
                                  <<[totalUsers |-> r.totalUsers,
                                     ordersPending |->
                                         OrdersWithStatus(orders, "pending"),
                                     ordersDelivered |->
                                         OrdersWithStatus(orders, "delivered")]>>]]
    /\ UNCHANGED <<store, mode, sessions>>

----------------------------------------------------------------------------
(* Private reads *)

\* Mutant: the owner check of the private reads lets every principal through.
NotSelf_Never(email, tokenEmail) == FALSE

\* email !== req.tokenEmail, the owner check of GET /users/:email and of
\* GET /user-reviews.
NotSelf(email, tokenEmail) == email # tokenEmail

\* GET /users/:email (after verifyJWT): 403 for another principal's email,
\* before the store is read; 404 without a record.
GetUser(s) ==
    /\ req[s].route = "GET /users/:email" /\ req[s].pc = "h1"
    /\ LET r == req[s]
           email == r.params.email
       IN  IF NotSelf(email, r.tokenEmail)
           THEN req' = [req EXCEPT ![s] =
                           [Respond(s, 403, "Forbidden!") EXCEPT
                               !.policyRan = TRUE]]
           ELSE \E outcome \in StoreOutcomes :
                   LET q == [r EXCEPT !.reads = @ + 1, !.policyRan = TRUE,
                                      !.pc = "done"]
                       user == FindUser(email)
                   IN  IF outcome = "throw"
                       THEN req' = [req EXCEPT ![s] =
                               [q EXCEPT !.resp = Response(500,
                                             "Failed to fetch user")]]
                       ELSE IF user = NoUser
                       THEN req' = [req EXCEPT ![s] =
                               [q EXCEPT !.resp = Response(404,
                                             "User not found")]]
                       ELSE req' = [req EXCEPT ![s] =
                               [q EXCEPT !.resp = Response(200, "user"),
                                         !.sent = <<user>>]]
    /\ UNCHANGED <<store, mode, sessions>>

\* find({ reviewerEmail: email }).sort({ date: -1 }).toArray(); the date
\* order is the insertion order (PATCH /reviews/:id refreshes the date: not
\* modelled).
ReviewsOf(coll, email) ==
    NewestFirst(SelectSeq(coll, LAMBDA review : review.reviewerEmail = email))

\* GET /user-reviews?email= (after verifyJWT): req.query.email is carried in
\* params.email.  400 without it, 403 for another principal's email.
GetUserReviews(s) ==
    /\ req[s].route = "GET /user-reviews" /\ req[s].pc = "h1"
    /\ LET r == req[s]
           email == r.params.email
       IN  IF Falsy(email)
           THEN req' = [req EXCEPT ![s] = Respond(s, 400, "email is required")]
           ELSE IF NotSelf(email, r.tokenEmail)
           THEN req' = [req EXCEPT ![s] =
                           [Respond(s, 403, "Forbidden!") EXCEPT
                               !.policyRan = TRUE]]
           ELSE \E outcome \in StoreOutcomes :
                   LET q == [r EXCEPT !.reads = @ + 1, !.policyRan = TRUE,
                                      !.pc = "done"]
                   IN  IF outcome = "throw"
                       THEN req' = [req EXCEPT ![s] =
                               [q EXCEPT !.resp = Response(500,
                                             "Failed to fetch user reviews")]]
                       ELSE req' = [req EXCEPT ![s] =
                               [q EXCEPT !.resp = Response(200, "reviews"),
                                         !.sent = ReviewsOf(reviews, email)]]
    /\ UNCHANGED <<store, mode, sessions>>

----------------------------------------------------------------------------
(* Listings of meals and reviews *)

\* The documents a find() returns: those not deleted.
Stored(coll, none) == SelectSeq(coll, LAMBDA doc : doc # none)

\* GET /meals, its countDocuments (no middleware).
GetMealsCount(s) ==
    /\ req[s].route = "GET /meals" /\ req[s].pc = "h1"
    /\ \E outcome \in StoreOutcomes :
          LET r == [req[s] EXCEPT !.reads = @ + 1]
          IN  IF outcome = "throw"
              THEN req' = [req EXCEPT ![s] =
                              [r EXCEPT !.pc = "done",
                                        !.resp = Response(500,
                                                     "Failed to fetch meals")]]
              ELSE req' = [req EXCEPT ![s] =
                              [r EXCEPT !.totalMeals =
                                            Len(Stored(meals, NoMeal)),
                                        !.pc = "h2"]]
    /\ UNCHANGED <<store, mode, sessions>>

\* GET /meals, its find().skip(skip).limit(limit) for the default page and
\* limit (page 1 of 10 meals), then the response.
GetMealsFind(s) ==
    /\ req[s].route = "GET /meals" /\ req[s].pc = "h2"
    /\ \E outcome \in StoreOutcomes :
          LET r == [req[s] EXCEPT !.reads = @ + 1, !.pc = "done"]
          IN  IF outcome = "throw"
              THEN req' = [req EXCEPT ![s] =
                              [r EXCEPT !.resp = Response(500,
                                                     "Failed to fetch meals")]]
              ELSE req' = [req EXCEPT ![s] =
                              [r EXCEPT !.resp = Response(200, "meals"),
                                        !.sent = Stored(meals, NoMeal)]]
    /\ UNCHANGED <<store, mode, sessions>>

\* GET /reviews (no middleware).
GetReviews(s) ==
    /\ req[s].route = "GET /reviews" /\ req[s].pc = "h1"
    /\ \E outcome \in StoreOutcomes :
          LET r == [req[s] EXCEPT !.reads = @ + 1, !.pc = "done"]
          IN  IF outcome = "throw"
              THEN req' = [req EXCEPT ![s] =
                              [r EXCEPT !.resp = Response(500,
                                                     "Failed to fetch reviews")]]
              ELSE req' = [req EXCEPT ![s] =
                              [r EXCEPT !.resp = Response(200, "reviews"),
                                        !.sent = NewestFirst(
                                                     Stored(reviews, NoReview))]]
    /\ UNCHANGED <<store, mode, sessions>>

\* find({ foodId: mealId }).sort({ date: -1 }).toArray()
ReviewsFor(coll, mealId) ==
    NewestFirst(SelectSeq(coll, LAMBDA review : review.foodId = mealId))

\* GET /reviews/:mealId: registered behind verifyJWT.
GetMealReviews(s) ==
    /\ req[s].route = "GET /reviews/:mealId" /\ req[s].pc = "h1"
    /\ \E outcome \in StoreOutcomes :
          LET r == [req[s] EXCEPT !.reads = @ + 1, !.pc = "done"]
          IN  IF outcome = "throw"
              THEN req' = [req EXCEPT ![s] =
                              [r EXCEPT !.resp = Response(500,
                                                     "Failed to fetch reviews")]]
              ELSE req' = [req EXCEPT ![s] =
                              [r EXCEPT !.resp = Response(200, "reviews"),
                                        !.sent = ReviewsFor(reviews,
                                                     r.params.mealId)]]
    /\ UNCHANGED <<store, mode, sessions>>

----------------------------------------------------------------------------
(* Payment sessions *)

\* stripe.checkout.sessions.create either completes or throws; it throws only
\* in a faulty run.
ProcessorOutcomes == IF mode.faults THEN {"ok", "throw"} ELSE {"ok"}

\* POST /create-payment-intent (after verifyJWT): a checkout session for the
\* orderId of the body, whatever it names; no try/catch.
CreatePaymentIntent(s) ==
    /\ req[s].route = "POST /create-payment-intent" /\ req[s].pc = "h1"
    /\ \E outcome \in ProcessorOutcomes :
          IF outcome = "throw"
          THEN /\ \E resp \in UnhandledOutcomes :
                     req' = [req EXCEPT ![s] =
                                [req[s] EXCEPT !.pc = "done", !.resp = resp]]
               /\ UNCHANGED sessions
          ELSE /\ sessions' = sessions \cup {req[s].body.orderId}
               /\ req' = [req EXCEPT ![s] = Respond(s, 200, "paymentUrl")]
    /\ UNCHANGED <<store, mode>>

----------------------------------------------------------------------------
(* The earliest revision of the server (second half of src/index.js) *)

\* authorization?.split(" ")[1]: the second segment, however many follow.
EarliestToken(auth) ==
    IF auth = NoHeader \/ Len(auth) < 2 THEN Undefined ELSE auth[2]

\* verifyJWT of the earliest revision.
EarliestVerifyJWT(s) ==
    /\ req[s].pc = "earliest verifyJWT"
    /\ LET r == req[s]
           token == EarliestToken(r.auth)
       IN  IF Falsy(token)
           THEN req' = [req EXCEPT ![s] =
                           Respond(s, 401, "Unauthorized Access!")]
           ELSE \E decoded \in verifyIdToken(token) :
                   IF decoded.ok
                   THEN req' = [req EXCEPT ![s] =
                           [r EXCEPT !.verifyCalled = TRUE,
                                     !.tokenEmail = decoded.email,
                                     !.pc = AfterMiddleware(r.route,
                                                "earliest verifyJWT")]]
                   ELSE req' = [req EXCEPT ![s] =
                           [r EXCEPT !.verifyCalled = TRUE,
                                     !.pc = "done",
                                     !.resp = VerifyErrorResponse(decoded.err)]]
    /\ UNCHANGED <<store, mode, sessions>>

\* POST /users of the earliest revision, up to its findOne: no try/catch.
EarliestPostUsersFind(s) ==
    /\ req[s].route = "earliest POST /users" /\ req[s].pc = "h1"
    /\ LET r == req[s]
           user == r.body
       IN  IF r.tokenEmail # user.email
           THEN req' = [req EXCEPT ![s] =
                           [Respond(s, 403, "Forbidden!") EXCEPT
                               !.policyRan = TRUE]]
           ELSE \E outcome \in StoreOutcomes :
                   LET q == [r EXCEPT !.reads = @ + 1, !.policyRan = TRUE]
                   IN  IF outcome = "throw"
                       THEN \E resp \in UnhandledOutcomes :
                               req' = [req EXCEPT ![s] =
                                   [q EXCEPT !.pc = "done", !.resp = resp]]
                       ELSE IF UserExists(user.email)
                       THEN req' = [req EXCEPT ![s] =
                               [q EXCEPT !.pc = "done",
                                         !.resp = Response(200,
                                             "User already exists")]]
                       ELSE req' = [req EXCEPT ![s] = [q EXCEPT !.pc = "h2"]]
    /\ UNCHANGED <<store, mode, sessions>>

\* POST /users of the earliest revision, its insertOne.
EarliestPostUsersInsert(s) ==
    /\ req[s].route = "earliest POST /users" /\ req[s].pc = "h2"
    /\ \E outcome \in StoreOutcomes :
          IF outcome = "throw"
          THEN /\ \E resp \in UnhandledOutcomes :
                     req' = [req EXCEPT ![s] =
                                [req[s] EXCEPT !.pc = "done", !.resp = resp]]
               /\ UNCHANGED users
          ELSE /\ users' = Append(users, UserDocument(req[s].body))
               /\ req' = [req EXCEPT ![s] =
                             [Respond(s, 200, "insertedId") EXCEPT
                                 !.writes = @ + 1]]
    /\ UNCHANGED <<roleRequests, meals, orders, favorites, reviews, payments,
                 mode, sessions>>

\* POST /meals of the earliest revision: 403 unless meal.userEmail is the
\* principal's, then insertOne.
EarliestPostMeals(s) ==
    /\ req[s].route = "earliest POST /meals" /\ req[s].pc = "h1"
    /\ LET r == req[s]
           meal == r.body
       IN  IF meal.userEmail # r.tokenEmail
           THEN /\ req' = [req EXCEPT ![s] =
                              [Respond(s, 403, "Forbidden!") EXCEPT
                                  !.policyRan = TRUE]]
                /\ UNCHANGED meals
           ELSE \E outcome \in StoreOutcomes :
                   IF outcome = "throw"
                   THEN /\ req' = [req EXCEPT ![s] =
                                      [Respond(s, 500, "Failed to add meal")
                                          EXCEPT !.policyRan = TRUE]]
                        /\ UNCHANGED meals
                   ELSE /\ meals' = Append(meals,
                                 [chefEmail |-> meal.chefEmail,
                                  userEmail |-> meal.userEmail,
                                  by |-> r.tokenEmail])
                        /\ req' = [req EXCEPT ![s] =
                                      [Respond(s, 200, "insertedId") EXCEPT
                                          !.policyRan = TRUE, !.writes = @ + 1]]
    /\ UNCHANGED <<users, roleRequests, orders, favorites, reviews, payments,
                 mode, sessions>>

----------------------------------------------------------------------------
(* Requests *)

BearerOf(t) == <<"Bearer", t>>
Principals == {BearerOf(t) : t \in ValidTokens}

\* The collection a creation route inserts into has room for one more
\* document, counting the requests of that route already in flight (a
\* registration of a stored email inserts nothing).
Pending(route) ==
    Cardinality({t \in Slots : InFlight(t) /\ req[t].route = route})
HasRoom(route, body) ==
    CASE route = "POST /users" ->
             \/ Len(users) + Pending(route) < MaxUsers
             \/ FindUser(body.email) # NoUser
      [] route = "POST /role-requests" ->
             Len(roleRequests) + Pending(route) < MaxRoleRequests
      [] route = "POST /meals" -> Len(meals) + Pending(route) < MaxDocs
      [] route = "earliest POST /users" ->
             \/ Len(users) + Pending(route) < MaxUsers
             \/ FindUser(body.email) # NoUser
      [] route = "earliest POST /meals" ->
             Len(meals) + Pending(route) < MaxDocs
      [] route = "POST /orders" -> Len(orders) + Pending(route) < MaxDocs
      [] route = "POST /favorites" ->
             \/ Len(favorites) + Pending(route) < MaxDocs
             \/ /\ FavoriteIdx(body.userEmail, String(body.mealId)) # 0
                /\ Len(favorites) <= MaxDocs
      [] route = "POST /reviews" -> Len(reviews) + Pending(route) < MaxDocs
      [] route = "POST /payment-success" ->
             Len(payments) + Pending(route) < MaxDocs
      [] OTHER -> TRUE

\* A request arrives on a free slot; requests overlap only in a concurrent
\* run.  inputs: the requests a client may send, [route, auth, body, params].
Receive(s, inputs) ==
    /\ ~InFlight(s)
    /\ mode.concurrent \/ \A t \in Slots : ~InFlight(t)
    /\ mode.concurrent \/ s = "r1"
    /\ \E in \in inputs :
          /\ HasRoom(in.route, in.body)
          /\ req' = [req EXCEPT ![s] =
                        [IdleRequest EXCEPT !.route = in.route,
                                            !.pc = Chain(in.route)[1],
                                            !.auth = in.auth,
                                            !.body = in.body,
                                            !.params = in.params]]
    /\ UNCHANGED <<store, mode, sessions>>

Input(route, auth, body, params) ==
    [route |-> route, auth |-> auth, body |-> body, params |-> params]

\* Every header with an empty body, to exercise verifyJWT on a route.
AnyHeader(route) ==
    {Input(route, h, EmptyBody, EmptyParams) : h \in Headers}

PostUsersInputs ==
    {Input("POST /users", h,
           [EmptyBody EXCEPT !.email = e, !.role = ro, !.status = st],
           EmptyParams) :
        h \in Principals, e \in {"a@x.com", "b@x.com", Undefined},
        ro \in {"user", "chef", "admin"}, st \in {"normal"}}
        \cup AnyHeader("POST /users")

MakeFraudInputs ==
    {Input("PATCH /users/make-fraud/:email", h, EmptyBody,
           [EmptyParams EXCEPT !.email = e]) :
        h \in Principals, e \in Emails}
        \cup AnyHeader("PATCH /users/make-fraud/:email")

PostMealsInputs ==
    {Input("POST /meals", h, [EmptyBody EXCEPT !.chefEmail = e], EmptyParams) :
        h \in Principals, e \in {"a@x.com"}}
        \cup AnyHeader("POST /meals")

PostOrdersInputs ==
    {Input("POST /orders", h, [EmptyBody EXCEPT !.userEmail = e], EmptyParams) :
        h \in Principals, e \in {"a@x.com"}}
        \cup AnyHeader("POST /orders")

OwnerEmails == {"a@x.com", "b@x.com", Undefined}

PostFavoritesInputs ==
    {Input("POST /favorites", h,
           [EmptyBody EXCEPT !.userEmail = e, !.mealId = m], EmptyParams) :
        h \in Principals, e \in OwnerEmails, m \in {"meal-1", Undefined}}
        \cup AnyHeader("POST /favorites")

PostReviewsInputs ==
    {Input("POST /reviews", h,
           [EmptyBody EXCEPT !.reviewerEmail = e, !.foodId = m], EmptyParams) :
        h \in Principals, e \in OwnerEmails, m \in {"meal-1", Undefined}}
        \cup AnyHeader("POST /reviews")

PostRoleRequestsInputs ==
    {Input("POST /role-requests", h,
           [EmptyBody EXCEPT !.userEmail = e, !.requestType = t], EmptyParams) :
        h \in Principals, e \in OwnerEmails, t \in {"chef", "admin", Undefined}}
        \cup AnyHeader("POST /role-requests")

\* Registrations and role requests as the client application sends them:
\* for the principal itself, as an ordinary user.
RegisterInputs ==
    {Input("POST /users", h,
           [EmptyBody EXCEPT !.email = TokenEmail(h[2]), !.role = "user",
                             !.status = "normal"],
           EmptyParams) : h \in Principals}

OwnRoleRequestInputs ==
    {Input("POST /role-requests", h,
           [EmptyBody EXCEPT !.userEmail = TokenEmail(h[2]), !.requestType = t],
           EmptyParams) :
        h \in Principals, t \in {"chef", "admin"}}

\* Identifiers a client may name: 0 is malformed, MaxRoleRequests + 1 names
\* no document.
IdParams == 0..(MaxRoleRequests + 1)

DecideInputs ==
    {Input(route, h, EmptyBody, [EmptyParams EXCEPT !.id = id]) :
        route \in {"PATCH /role-requests/accept/:id",
                   "PATCH /role-requests/reject/:id"},
        h \in Principals, id \in IdParams}

\* A registration of a@x.com as the client application sends it, as an
\* ordinary user or as a chef.
SignUpInputs ==
    {Input("POST /users", BearerOf("tok-a"),
           [EmptyBody EXCEPT !.email = "a@x.com", !.role = ro,
                             !.status = "normal"],
           EmptyParams) : ro \in {"user", "chef"}}

\* Identifiers a client may name in a collection of at most MaxDocs
\* documents: 0 is malformed, MaxDocs + 1 names no document.
DocIds == 0..(MaxDocs + 1)

WithId(route, h, body, id) ==
    Input(route, h, body, [EmptyParams EXCEPT !.id = id])

\* The public fetches by identifier.
FetchInputs ==
    {WithId(route, NoHeader, EmptyBody, id) :
        route \in {"GET /meals/:id", "GET /orders/:id"}, id \in DocIds}

\* Meals created by a principal for itself.
OwnMealInputs ==
    {Input("POST /meals", h, [EmptyBody EXCEPT !.chefEmail = TokenEmail(h[2])],
           EmptyParams) : h \in Principals}

MealChangeInputs ==
    {WithId("DELETE /meals/:id", h, EmptyBody, id) :
        h \in Principals, id \in DocIds}
    \cup
    {WithId("PATCH /meals/:id", h, [EmptyBody EXCEPT !.chefEmail = "b@x.com"],
            id) : h \in Principals, id \in DocIds}

\* Orders placed by a principal for itself, for a meal of the chef a@x.com.
OwnOrderInputs ==
    {Input("POST /orders", h,
           [EmptyBody EXCEPT !.userEmail = TokenEmail(h[2]),
                             !.chefEmail = "a@x.com"],
           EmptyParams) : h \in Principals}

OrderStatuses == {"accepted", "delivered"}

OrderChangeInputs(statuses) ==
    {WithId("PATCH /orders/:id", h, [EmptyBody EXCEPT !.orderStatus = st], id) :
        h \in Principals, st \in statuses, id \in DocIds}

PaymentSuccessInputs ==
    {Input("POST /payment-success", NoHeader,
           [EmptyBody EXCEPT !.orderId = id], EmptyParams) : id \in DocIds}

\* Payment sessions asked for the orders the store may hold and for one it
\* does not hold, with and without a header.
PaymentIntentInputs ==
    {Input("POST /create-payment-intent", h,
           [EmptyBody EXCEPT !.orderId = id], EmptyParams) :
        h \in {NoHeader, BearerOf("tok-a")}, id \in 1..(MaxDocs + 1)}

\* Favorites created by a principal for itself.
OwnFavoriteInputs ==
    {Input("POST /favorites", h,
           [EmptyBody EXCEPT !.userEmail = TokenEmail(h[2]), !.mealId = m],
           EmptyParams) : h \in Principals, m \in {"#7", "7"}}

DeleteFavoriteInputs ==
    {WithId("DELETE /favorites/:id", h, EmptyBody, id) :
        h \in {NoHeader, BearerOf("tok-admin")}, id \in DocIds}

\* Reviews signed with the principal's email, or unsigned.
OwnReviewInputs ==
    {Input("POST /reviews", h,
           [EmptyBody EXCEPT !.reviewerEmail =
                                 IF signed THEN TokenEmail(h[2]) ELSE Undefined,
                             !.foodId = "meal-1", !.comment = "good"],
           EmptyParams) :
        h \in Principals, signed \in BOOLEAN}

ReviewChangeInputs ==
    {WithId("DELETE /reviews/:id", h, EmptyBody, id) :
        h \in Principals, id \in DocIds}
    \cup
    {WithId("PATCH /reviews/:id", h, [EmptyBody EXCEPT !.comment = "bad"], id) :
        h \in Principals, id \in DocIds}

\* The private reads, asked for each email by each principal and by nobody.
PrivateReadInputs ==
    {Input(route, h, EmptyBody, [EmptyParams EXCEPT !.email = e]) :
        route \in {"GET /users/:email", "GET /user-reviews"},
        h \in Principals \cup {NoHeader},
        e \in {AdminEmail, "a@x.com", Undefined}}

\* The listings and the meal of an id, asked with and without a header.
PublicReadInputs ==
    {Input(route, h, EmptyBody, EmptyParams) :
        route \in {"GET /meals", "GET /reviews"},
        h \in {NoHeader, BearerOf("tok-a")}}
    \cup
    {WithId("GET /meals/:id", h, EmptyBody, id) :
        h \in {NoHeader, BearerOf("tok-a")}, id \in DocIds}
    \cup
    {Input("GET /reviews/:mealId", h, EmptyBody,
           [EmptyParams EXCEPT !.mealId = "meal-1"]) :
        h \in {NoHeader, BearerOf("tok-a")}}

\* Bodies as any client may send them: a registration of a@x.com with a role
\* and a status of the client's choosing, a role request for any role.
ArbitrarySignUpInputs ==
    {Input("POST /users", BearerOf("tok-a"),
           [EmptyBody EXCEPT !.email = "a@x.com", !.role = ro, !.status = st],
           EmptyParams) :
        ro \in {"user", "admin", "root"}, st \in {"normal", "vip"}}

ArbitraryRoleRequestInputs ==
    {Input("POST /role-requests", BearerOf("tok-a"),
           [EmptyBody EXCEPT !.userEmail = "a@x.com", !.requestType = t],
           EmptyParams) : t \in {"chef", "root"}}

\* The administrator's decisions on the stored requests and fraud flags.
AdminDecideInputs ==
    {Input(route, BearerOf("tok-admin"), EmptyBody,
           [EmptyParams EXCEPT !.id = id]) :
        route \in {"PATCH /role-requests/accept/:id",
                   "PATCH /role-requests/reject/:id"},
        id \in 1..MaxRoleRequests}
    \cup
    {Input("PATCH /users/make-fraud/:email", BearerOf("tok-admin"), EmptyBody,
           [EmptyParams EXCEPT !.email = e]) : e \in {"a@x.com", "b@x.com"}}

\* The administrator's routes, asked by either principal.
AdminInputs ==
    {Input(route, h, EmptyBody, EmptyParams) :
        route \in {"GET /users", "GET /role-requests",
                   "GET /admin/statistics"},
        h \in Principals}
    \cup
    {Input("PATCH /users/make-fraud/:email", h, EmptyBody,
           [EmptyParams EXCEPT !.email = "a@x.com"]) : h \in Principals}

----------------------------------------------------------------------------
(* Specifications *)

\* The store as deployed: one administrator, no other document.
InitStore ==
    /\ users = <<[email |-> AdminEmail, role |-> "admin", status |-> "normal",
                  chefId |-> Undefined]>>
    /\ roleRequests = <<>>
    /\ meals = <<>>
    /\ orders = <<>>
    /\ favorites = <<>>
    /\ reviews = <<>>
    /\ payments = <<>>
    /\ sessions = {}
    /\ req = [s \in Slots |-> IdleRequest]

Init ==
    /\ InitStore
    /\ mode = [concurrent |-> FALSE, faults |-> FALSE]

\* Users, meals and orders, one request at a time.
Next ==
    \E s \in Slots :
        \/ Receive(s, PostUsersInputs \cup MakeFraudInputs
                        \cup PostMealsInputs \cup PostOrdersInputs)
        \/ VerifyJWT(s)
        \/ VerifyAdmin(s)
        \/ VerifyChef(s)
        \/ PostUsersFind(s)
        \/ PostUsersInsert(s)
        \/ MakeFraud(s)
        \/ PostMealsFind(s)
        \/ PostMealsInsert(s)
        \/ PostOrdersFind(s)
        \/ PostOrdersInsert(s)

Spec == Init /\ [][Next]_vars

\* The self-ownership-gated creation routes, one request at a time.
NextCreate ==
    \E s \in Slots :
        \/ Receive(s, PostUsersInputs \cup PostFavoritesInputs
                        \cup PostReviewsInputs \cup PostRoleRequestsInputs)
        \/ VerifyJWT(s)
        \/ PostUsersFind(s)
        \/ PostUsersInsert(s)
        \/ PostFavoritesFind(s)
        \/ PostFavoritesInsert(s)
        \/ PostReviews(s)
        \/ PostRoleRequests(s)

SpecCreate == Init /\ [][NextCreate]_vars

\* The role-request workflow, one request at a time.
NextRole ==
    \E s \in Slots :
        \/ Receive(s, RegisterInputs \cup OwnRoleRequestInputs
                        \cup DecideInputs)
        \/ VerifyJWT(s)
        \/ VerifyAdmin(s)
        \/ PostUsersFind(s)
        \/ PostUsersInsert(s)
        \/ PostRoleRequests(s)
        \/ FindRoleRequest(s)
        \/ AcceptFindUser(s)
        \/ AcceptUpdateUser(s)
        \/ AcceptUpdateRequest(s)
        \/ RejectUpdateRequest(s)

SpecRole == Init /\ [][NextRole]_vars

\* The same workflow when store and provider calls may fail.
InitFaults ==
    /\ InitStore
    /\ mode = [concurrent |-> FALSE, faults |-> TRUE]

SpecRoleFaults == InitFaults /\ [][NextRole]_vars

\* Overlapping role-request submissions and rejections.
InitConcurrent ==
    /\ InitStore
    /\ mode = [concurrent |-> TRUE, faults |-> FALSE]

RejectInputs ==
    {Input("PATCH /role-requests/reject/:id", BearerOf("tok-admin"), EmptyBody,
           [EmptyParams EXCEPT !.id = id]) : id \in 1..MaxRoleRequests}

NextConcurrent ==
    \E s \in Slots :
        \/ Receive(s, OwnRoleRequestInputs \cup RejectInputs)
        \/ VerifyJWT(s)
        \/ VerifyAdmin(s)
        \/ PostRoleRequests(s)
        \/ FindRoleRequest(s)
        \/ RejectUpdateRequest(s)

SpecConcurrent == InitConcurrent /\ [][NextConcurrent]_vars

EarliestInputs ==
    {Input("earliest POST /users", h,
           [EmptyBody EXCEPT !.email = e, !.role = ro], EmptyParams) :
        h \in Headers, e \in {"a@x.com", "b@x.com", Undefined},
        ro \in {"user", "admin"}}
    \cup
    {Input("earliest POST /meals", h,
           [EmptyBody EXCEPT !.userEmail = e], EmptyParams) :
        h \in Headers, e \in {"a@x.com", "b@x.com", Undefined}}

\* The earliest revision, one request at a time.
NextEarliest ==
    \E s \in Slots :
        \/ Receive(s, EarliestInputs)
        \/ EarliestVerifyJWT(s)
        \/ EarliestPostUsersFind(s)
        \/ EarliestPostUsersInsert(s)
        \/ EarliestPostMeals(s)

SpecEarliest == Init /\ [][NextEarliest]_vars

\* The public fetches by identifier, with meals and orders to fetch.
NextFetch ==
    \E s \in Slots :
        \/ Receive(s, OwnMealInputs \cup PostOrdersInputs \cup FetchInputs)
        \/ VerifyJWT(s)
        \/ VerifyChef(s)
        \/ PostMealsFind(s)
        \/ PostMealsInsert(s)
        \/ PostOrdersFind(s)
        \/ PostOrdersInsert(s)
        \/ GetMeal(s)
        \/ GetOrder(s)

SpecFetch == Init /\ [][NextFetch]_vars

\* Orders: creation, status and payment.
NextOrders ==
    \E s \in Slots :
        \/ Receive(s, SignUpInputs \cup PostOrdersInputs
                        \cup OrderChangeInputs(OrderStatuses)
                        \cup PaymentSuccessInputs)
        \/ VerifyJWT(s)
        \/ VerifyChef(s)
        \/ PostUsersFind(s)
        \/ PostUsersInsert(s)
        \/ PostOrdersFind(s)
        \/ PostOrdersInsert(s)
        \/ PatchOrder(s)
        \/ PaymentSuccessUpdate(s)
        \/ PaymentSuccessInsert(s)

SpecOrders == Init /\ [][NextOrders]_vars

\* Orders when store and provider calls may fail.
SpecOrdersFaults == InitFaults /\ [][NextOrders]_vars

\* Reviews and favorites: creation, update and removal.
NextReviews ==
    \E s \in Slots :
        \/ Receive(s, OwnReviewInputs \cup ReviewChangeInputs
                        \cup OwnFavoriteInputs \cup DeleteFavoriteInputs)
        \/ VerifyJWT(s)
        \/ PostReviews(s)
        \/ FindReview(s)
        \/ DeleteReview(s)
        \/ UpdateReview(s)
        \/ PostFavoritesFind(s)
        \/ PostFavoritesInsert(s)
        \/ DeleteFavorite(s)

SpecReviews == Init /\ [][NextReviews]_vars

\* The reads: private to a principal, and open to everyone.
NextReads ==
    \E s \in Slots :
        \/ Receive(s, SignUpInputs \cup OwnReviewInputs \cup OwnMealInputs
                        \cup PrivateReadInputs \cup PublicReadInputs)
        \/ VerifyJWT(s)
        \/ VerifyChef(s)
        \/ PostUsersFind(s)
        \/ PostUsersInsert(s)
        \/ PostReviews(s)
        \/ PostMealsFind(s)
        \/ PostMealsInsert(s)
        \/ GetUser(s)
        \/ GetUserReviews(s)
        \/ GetMealsCount(s)
        \/ GetMealsFind(s)
        \/ GetMeal(s)
        \/ GetReviews(s)
        \/ GetMealReviews(s)

SpecReads == Init /\ [][NextReads]_vars

\* The routes that write user records, with bodies of the client's choosing.
NextUsers ==
    \E s \in Slots :
        \/ Receive(s, ArbitrarySignUpInputs \cup ArbitraryRoleRequestInputs
                        \cup AdminDecideInputs)
        \/ VerifyJWT(s)
        \/ VerifyAdmin(s)
        \/ PostUsersFind(s)
        \/ PostUsersInsert(s)
        \/ MakeFraud(s)
        \/ PostRoleRequests(s)
        \/ FindRoleRequest(s)
        \/ AcceptFindUser(s)
        \/ AcceptUpdateUser(s)
        \/ AcceptUpdateRequest(s)
        \/ RejectUpdateRequest(s)

SpecUsers == Init /\ [][NextUsers]_vars

\* Overlapping registrations on a store without any document.
InitEmpty ==
    /\ users = <<>>
    /\ roleRequests = <<>>
    /\ meals = <<>>
    /\ orders = <<>>
    /\ favorites = <<>>
    /\ reviews = <<>>
    /\ payments = <<>>
    /\ sessions = {}
    /\ req = [s \in Slots |-> IdleRequest]
    /\ mode = [concurrent |-> TRUE, faults |-> FALSE]

NextSignUp ==
    \E s \in Slots :
        \/ Receive(s, SignUpInputs \cup RegisterInputs)
        \/ VerifyJWT(s)
        \/ PostUsersFind(s)
        \/ PostUsersInsert(s)

SpecSignUp == InitEmpty /\ [][NextSignUp]_vars

\* Orders and their payment: session and confirmation.
NextPayments ==
    \E s \in Slots :
        \/ Receive(s, OwnOrderInputs \cup PaymentIntentInputs
                        \cup PaymentSuccessInputs)
        \/ VerifyJWT(s)
        \/ PostOrdersFind(s)
        \/ PostOrdersInsert(s)
        \/ CreatePaymentIntent(s)
        \/ PaymentSuccessUpdate(s)
        \/ PaymentSuccessInsert(s)

SpecPayments == Init /\ [][NextPayments]_vars

\* The role-gated routes, asked by the administrator and by a@x.com.
NextGates ==
    \E s \in Slots :
        \/ Receive(s, SignUpInputs \cup AdminInputs \cup DecideInputs
                        \cup OwnMealInputs \cup MealChangeInputs
                        \cup OwnOrderInputs
                        \cup OrderChangeInputs({"accepted"}))
        \/ VerifyJWT(s)
        \/ VerifyAdmin(s)
        \/ VerifyChef(s)
        \/ PostUsersFind(s)
        \/ PostUsersInsert(s)
        \/ GetUsers(s)
        \/ MakeFraud(s)
        \/ GetRoleRequests(s)
        \/ FindRoleRequest(s)
        \/ StatisticsCount(s)
        \/ StatisticsOrders(s)
        \/ PostMealsFind(s)
        \/ PostMealsInsert(s)
        \/ DeleteMeal(s)
        \/ PatchMeal(s)
        \/ PostOrdersFind(s)
        \/ PostOrdersInsert(s)
        \/ PatchOrder(s)

SpecGates == Init /\ [][NextGates]_vars

----------------------------------------------------------------------------
(* Claims *)

\* The header is not exactly two space-separated segments.
MalformedHeader(auth) == auth = NoHeader \/ Len(auth) # 2

\* The request reached neither a policy check nor the document store.
Untouched(r) == ~r.policyRan /\ r.reads = 0 /\ r.writes = 0

\* C1: on every protected route, a request whose Authorization header is
\* missing or is not exactly two segments is answered 401, and for it the
\* provider's verify is never called, no policy check runs and no store
\* operation is performed.  Stated for every step of such a request.
C1_MalformedHeaderUnauthenticated ==
    \A s \in Slots :
        (req[s].route # "none" /\ Chain(req[s].route)[1] # "h1"
            /\ MalformedHeader(req[s].auth))
        => /\ ~req[s].verifyCalled
           /\ Untouched(req[s])
           /\ req[s].pc = "done" => req[s].resp.status = 401

\* C2: whenever the provider's verify fails, the caller receives the same 401
\* response whatever the cause: the response carries no cause-specific
\* detail, and the request reaches neither a policy check nor the store.
C2_UniformVerificationFailure ==
    \A s \in Slots :
        (req[s].pc = "done" /\ req[s].verifyCalled
            /\ req[s].tokenEmail = Undefined)
        => /\ req[s].resp = Response(401, "Unauthorized Access!")
           /\ Untouched(req[s])

\* The owner field a creation route checks against the principal.
OwnerField(r) ==
    CASE r.route = "POST /users" -> r.body.email
      [] r.route = "POST /reviews" -> r.body.reviewerEmail
      [] OTHER -> r.body.userEmail

\* The body carries the fields the route requires besides the owner field.
HasRequiredFields(r) ==
    CASE r.route = "POST /favorites" -> r.body.mealId # Undefined
      [] r.route = "POST /role-requests" -> r.body.requestType # Undefined
      [] r.route = "POST /reviews" -> r.body.foodId # Undefined
      [] OTHER -> TRUE

\* A creation request of a verified principal that names another owner.
ForeignOwner(s) ==
    /\ req[s].route \in {"POST /users", "POST /favorites", "POST /reviews",
                         "POST /role-requests"}
    /\ req[s].tokenEmail # Undefined
    /\ OwnerField(req[s]) # Undefined
    /\ OwnerField(req[s]) # req[s].tokenEmail

\* C3 as stated: on every self-ownership-gated creation route a request
\* whose owner field differs from the principal is answered 403, before any
\* document-store operation.
C3_ForeignOwnerForbidden ==
    \A s \in Slots :
        ForeignOwner(s)
        => /\ req[s].reads = 0 /\ req[s].writes = 0
           /\ req[s].pc = "done" => req[s].resp.status = 403

\* C3 as amended: such a request is rejected before any document-store
\* operation, with 403 when the body carries the route's required fields
\* and with 400 when one is missing.
C3_ForeignOwnerRejected ==
    \A s \in Slots :
        ForeignOwner(s)
        => /\ req[s].reads = 0 /\ req[s].writes = 0
           /\ req[s].pc = "done"
              => req[s].resp.status =
                    IF HasRequiredFields(req[s]) THEN 403 ELSE 400

\* C3 witness: a favorite for b@x.com submitted by a@x.com was answered 403
\* with no store operation, and no favorite is stored.
C3_Witness ==
    \E s \in Slots :
        /\ req[s].route = "POST /favorites" /\ req[s].pc = "done"
        /\ req[s].tokenEmail = "a@x.com"
        /\ req[s].body.userEmail = "b@x.com"
        /\ req[s].resp.status = 403
        /\ req[s].reads = 0 /\ req[s].writes = 0
        /\ favorites = <<>>

\* The number of user records stored for an email.
RecordsOf(email) ==
    Cardinality({i \in 1..Len(users) : users[i].email = email})

\* A request of the route by a verified principal has been answered.
Answered(s, route) ==
    req[s].route = route /\ req[s].pc = "done" /\ req[s].tokenEmail # Undefined

\* C4: self-registration is idempotent: a principal's POST /users with its
\* own email is answered with success, first time and again, exactly one
\* record is stored for that email, and the request that finds the record
\* leaves the users collection unchanged.
C4_IdempotentRegistration ==
    /\ [](\A s \in Slots :
            (Answered(s, "POST /users")
                /\ req[s].body.email = req[s].tokenEmail)
            => /\ req[s].resp.status = 200
               /\ RecordsOf(req[s].tokenEmail) = 1)
    /\ [][\A s \in Slots :
            (req[s].route = "POST /users" /\ req[s].pc = "h1"
                /\ req[s].body.email = req[s].tokenEmail
                /\ RecordsOf(req[s].tokenEmail) >= 1)
            => /\ users' = users
               /\ req'[s].pc = "done" => req'[s].resp.status = 200]_vars

\* C4 witness: a second registration of a@x.com was answered "already
\* exists" with one record stored.
C4_Witness ==
    \E s \in Slots :
        /\ Answered(s, "POST /users")
        /\ req[s].tokenEmail = "a@x.com"
        /\ req[s].resp = Response(200, "User already exists")
        /\ RecordsOf("a@x.com") = 1

\* C5: POST /meals by a principal whose record has role chef and status
\* fraud, and POST /orders by one whose record has role user and status
\* fraud, are answered 403 and insert nothing.
C5_FraudGate ==
    \A s \in Slots :
        /\ (Answered(s, "POST /meals") /\ req[s].user.role = "chef"
                /\ req[s].user.status = "fraud")
           => (req[s].resp.status = 403 /\ req[s].writes = 0)
        /\ (Answered(s, "POST /orders") /\ req[s].user.role = "user"
                /\ req[s].user.status = "fraud")
           => (req[s].resp.status = 403 /\ req[s].writes = 0)

\* C5 witness: a fraud-flagged ordinary user was refused an order, and no
\* order is stored.
C5_Witness ==
    \E s \in Slots :
        /\ Answered(s, "POST /orders")
        /\ req[s].user.role = "user" /\ req[s].user.status = "fraud"
        /\ req[s].resp.status = 403
        /\ orders = <<>>

\* C6: a principal whose record has role admin and status fraud passes the
\* fraud gate: its POST /meals and POST /orders insert the document.
C6_FraudAdminNotBlocked ==
    \A s \in Slots :
        /\ (Answered(s, "POST /meals") /\ req[s].user.role = "admin"
                /\ req[s].user.status = "fraud")
           => /\ req[s].resp.status = 200 /\ req[s].writes = 1
              /\ \E i \in 1..Len(meals) : meals[i].by = req[s].tokenEmail
        /\ (Answered(s, "POST /orders") /\ req[s].user.role = "admin"
                /\ req[s].user.status = "fraud")
           => /\ req[s].resp.status = 200 /\ req[s].writes = 1
              /\ \E i \in 1..Len(orders) : orders[i].by = req[s].tokenEmail

\* C6 witness: a fraud-flagged admin created a meal.
C6_Witness ==
    \E s \in Slots :
        /\ Answered(s, "POST /meals")
        /\ req[s].user.role = "admin" /\ req[s].user.status = "fraud"
        /\ req[s].resp.status = 200
        /\ Len(meals) = 1

\* The pending role requests stored for an identity.
PendingOf(email) ==
    {i \in 1..Len(roleRequests) :
        /\ roleRequests[i].userEmail = email
        /\ roleRequests[i].requestStatus = "pending"}

\* C7: there is at most one pending role request per identity, under any
\* interleaving of submissions: a submission made while the identity has a
\* pending request stores nothing and is answered 409, and any other
\* well-formed submission stores one pending request and is answered 200.
C7_OnePendingRequest ==
    /\ [](\A e \in Emails : Cardinality(PendingOf(e)) <= 1)
    /\ [][\A s \in Slots :
            (req[s].route = "POST /role-requests" /\ req[s].pc = "h1"
                /\ req'[s].pc = "done"
                /\ req[s].body.userEmail = req[s].tokenEmail
                /\ req[s].body.requestType # Undefined)
            => IF PendingOf(req[s].tokenEmail) # {}
               THEN /\ req'[s].resp.status = 409
                    /\ roleRequests' = roleRequests
               ELSE /\ req'[s].resp.status = 200
                    /\ roleRequests' =
                          Append(roleRequests,
                                 [userEmail |-> req[s].tokenEmail,
                                  requestType |-> req[s].body.requestType,
                                  requestStatus |-> "pending"])]_vars

\* C7 witness: two overlapping submissions of a@x.com were answered, one 200
\* and one 409, and one pending request of a@x.com is stored.
C7_Witness ==
    /\ \A s \in Slots : Answered(s, "POST /role-requests")
                          /\ req[s].tokenEmail = "a@x.com"
    /\ {req[s].resp.status : s \in Slots} = {200, 409}
    /\ Len(roleRequests) = 1
    /\ Cardinality(PendingOf("a@x.com")) = 1

\* An accept, or a reject, that was answered with success.
Decided(s, route) == Answered(s, route) /\ req[s].resp.status = 200

\* C8: after an admin's accept of a chef request whose user record exists
\* completes successfully, the target user record has role chef and a
\* non-empty chefId, and the request is approved.
C8_AcceptChef ==
    \A s \in Slots :
        (Decided(s, "PATCH /role-requests/accept/:id")
            /\ req[s].request.requestType = "chef")
        => /\ FindUser(req[s].request.userEmail).role = "chef"
           /\ ~Falsy(FindUser(req[s].request.userEmail).chefId)
           /\ roleRequests[req[s].params.id].requestStatus = "approved"

\* C8 witness: the chef request of the ordinary user a@x.com was accepted.
C8_Witness ==
    \E s \in Slots :
        /\ Decided(s, "PATCH /role-requests/accept/:id")
        /\ req[s].request =
              [userEmail |-> "a@x.com", requestType |-> "chef",
               requestStatus |-> "pending"]
        /\ req[s].user.role = "user"
        /\ FindUser("a@x.com").role = "chef"

\* C9: every step of a reject leaves every user record and every other
\* role request unchanged, and changes of the named request at most its
\* requestStatus, to rejected; a reject answered with success has set it.
C9_RejectFrame ==
    /\ [](\A s \in Slots :
            Decided(s, "PATCH /role-requests/reject/:id")
            => roleRequests[req[s].params.id].requestStatus = "rejected")
    /\ [][\A s \in Slots :
            (req[s].route = "PATCH /role-requests/reject/:id"
                /\ InFlight(s) /\ req'[s] # req[s])
            => /\ users' = users
               /\ Len(roleRequests') = Len(roleRequests)
               /\ \A i \in 1..Len(roleRequests) :
                     \/ roleRequests'[i] = roleRequests[i]
                     \/ /\ i = req[s].params.id
                        /\ roleRequests'[i] =
                              [roleRequests[i] EXCEPT
                                  !.requestStatus = "rejected"]]_vars

\* C9 witness: the first of two role requests was rejected while the second
\* is still pending.
C9_Witness ==
    \E s \in Slots :
        /\ Decided(s, "PATCH /role-requests/reject/:id")
        /\ req[s].params.id = 1
        /\ Len(roleRequests) = 2
        /\ roleRequests[1].requestStatus = "rejected"
        /\ roleRequests[2].requestStatus = "pending"

\* C10: in an accept the user record is updated before the request is
\* marked approved: an accept that has marked the request approved has
\* updated the user record, which carries the requested role; and an accept
\* whose user update failed is answered 500, never marks the request
\* approved and leaves a pending request pending.
C10_UserBeforeApproval ==
    \A s \in Slots :
        /\ req[s].approved
           => /\ req[s].userUpdated
              /\ FindUser(req[s].request.userEmail).role =
                    req[s].request.requestType
        /\ req[s].userUpdateFailed
           => /\ ~req[s].approved
              /\ req[s].pc = "done" /\ req[s].resp.status = 500
              /\ roleRequests[req[s].params.id].requestStatus =
                    req[s].request.requestStatus

\* C10 witness: the user update of an accept failed and the request it
\* names is still pending.
C10_Witness ==
    \E s \in Slots :
        /\ req[s].route = "PATCH /role-requests/accept/:id"
        /\ req[s].userUpdateFailed
        /\ req[s].resp.status = 500
        /\ roleRequests[req[s].params.id].requestStatus = "pending"

\* A request of the route that ended in an error: answered with an error
\* status, or left without an answer by a throw nothing caught.
EndedInError(s, route) ==
    req[s].route = route /\ req[s].pc = "done" /\ req[s].resp.status # 200

\* The order has a payment record.
HasPayment(orderId) ==
    \E j \in 1..Len(payments) : payments[j].orderId = orderId

\* C11: no multi-step mutation is partially applied.  When an accept ends
\* in an error, the user record and the role request it read are stored as
\* it read them; when a payment notification ends in an error, the order it
\* names is not left paid without a payment record.
C11_NoPartialApplication ==
    \A s \in Slots :
        /\ EndedInError(s, "PATCH /role-requests/accept/:id")
           => /\ req[s].user # NoUser
                 => FindUser(req[s].request.userEmail) = req[s].user
              /\ req[s].request # NoRequest
                 => FindRequest(req[s].params.id) = req[s].request
        /\ EndedInError(s, "POST /payment-success")
           => \A i \in 1..Len(orders) :
                 (i = req[s].body.orderId /\ orders[i].paymentStatus = "paid")
                 => HasPayment(i)

\* C12: a role request is created pending, its requestStatus changes only
\* from pending, to approved or to rejected, and an approved or rejected
\* request keeps its requestStatus under every accept and reject.
C12_RoleRequestLifecycle ==
    [][/\ \A i \in 1..Len(roleRequests) :
             roleRequests'[i].requestStatus # roleRequests[i].requestStatus
             => /\ roleRequests[i].requestStatus = "pending"
                /\ roleRequests'[i].requestStatus \in {"approved", "rejected"}
       /\ \A i \in (Len(roleRequests) + 1)..Len(roleRequests') :
             roleRequests'[i].requestStatus = "pending"]_vars

\* The identifier names no stored document of the collection.
NamesNothing(coll, id, none) ==
    id \notin 1..Len(coll) \/ coll[id] = none

\* C13: a fetch by identifier (GET /meals/:id, GET /orders/:id) with an
\* invalid identifier is answered 400 and performs no store operation; with
\* a valid identifier that matches no document it is answered 404.
C13_FetchById ==
    \A s \in Slots :
        /\ (req[s].route = "GET /meals/:id" /\ req[s].pc = "done")
           => IF req[s].params.id = 0
              THEN req[s].resp.status = 400 /\ Untouched(req[s])
              ELSE NamesNothing(meals, req[s].params.id, NoMeal)
                   => req[s].resp.status = 404
        /\ (req[s].route = "GET /orders/:id" /\ req[s].pc = "done")
           => IF req[s].params.id = 0
              THEN req[s].resp.status = 400 /\ Untouched(req[s])
              ELSE NamesNothing(orders, req[s].params.id, NoOrder)
                   => req[s].resp.status = 404

\* C13 witness: with an order stored, a fetch of an identifier that names no
\* order was answered 404.
C13_Witness ==
    \E s \in Slots :
        /\ req[s].route = "GET /orders/:id" /\ req[s].pc = "done"
        /\ Len(orders) >= 1
        /\ req[s].params.id > Len(orders)
        /\ req[s].resp.status = 404

\* The routes that look up or change a document by its store identifier
\* without checking the identifier first.
IdKeyedRoutes ==
    {"DELETE /favorites/:id", "PATCH /orders/:id", "DELETE /meals/:id",
     "PATCH /meals/:id", "PATCH /role-requests/accept/:id",
     "PATCH /role-requests/reject/:id", "POST /payment-success"}

\* The store identifier a request names.
IdOf(r) ==
    IF r.route = "POST /payment-success" THEN r.body.orderId ELSE r.params.id

\* C14: on every route that looks up or changes a document by its store
\* identifier, the handler answers a malformed identifier with 400 and
\* performs no store operation for it.
C14_MalformedIdInvalidArgument ==
    [][\A s \in Slots :
          (req[s].route \in IdKeyedRoutes /\ req[s].pc = "h1"
              /\ IdOf(req[s]) = 0 /\ req'[s] # req[s])
          => /\ req'[s].pc = "done" /\ req'[s].resp.status = 400
             /\ req'[s].reads = req[s].reads
             /\ store' = store]_vars

\* The routes that apply a role or status check to the principal.
RoleCheckedRoutes ==
    {"GET /users", "PATCH /users/make-fraud/:email", "GET /role-requests",
     "PATCH /role-requests/accept/:id", "PATCH /role-requests/reject/:id",
     "GET /admin/statistics", "POST /meals", "PATCH /meals/:id",
     "DELETE /meals/:id", "PATCH /orders/:id", "POST /orders"}

\* C15: on every route that applies a role or status check, a verified
\* principal that has no user record is answered 404, and the request writes
\* nothing.
C15_AbsentUserNotFound ==
    \A s \in Slots :
        (req[s].route \in RoleCheckedRoutes /\ req[s].pc = "done"
            /\ req[s].tokenEmail # Undefined
            /\ FindUser(req[s].tokenEmail) = NoUser)
        => req[s].resp.status = 404 /\ req[s].writes = 0

AdminRoutes ==
    {"GET /users", "PATCH /users/make-fraud/:email", "GET /role-requests",
     "PATCH /role-requests/accept/:id", "PATCH /role-requests/reject/:id",
     "GET /admin/statistics"}
ChefRoutes ==
    {"POST /meals", "PATCH /meals/:id", "DELETE /meals/:id",
     "PATCH /orders/:id"}

\* A request the role gate of its route must deny: on an administrator's
\* route by a principal whose record has another role, on a chef's route by
\* a principal whose record has role user.
MustDeny(s) ==
    /\ req[s].tokenEmail # Undefined
    /\ FindUser(req[s].tokenEmail) # NoUser
    /\ \/ /\ req[s].route \in AdminRoutes
          /\ FindUser(req[s].tokenEmail).role # "admin"
       \/ /\ req[s].route \in ChefRoutes
          /\ FindUser(req[s].tokenEmail).role = "user"

\* C16: role gates deny without effect: such a request is answered 403,
\* returns no stored data, and none of its steps changes a stored document.
C16_RoleGatesDeny ==
    /\ [](\A s \in Slots :
            (MustDeny(s) /\ req[s].pc = "done")
            => /\ req[s].resp.status = 403
               /\ req[s].sent = <<>>
               /\ req[s].writes = 0)
    /\ [][\A s \in Slots :
            (MustDeny(s) /\ req'[s] # req[s]) => store' = store]_vars

\* C16 witness: the ordinary user a@x.com asked to delete a stored meal, was
\* answered 403, and the meal is still stored.
C16_Witness ==
    \E s \in Slots :
        /\ req[s].route = "DELETE /meals/:id" /\ req[s].pc = "done"
        /\ req[s].tokenEmail = "a@x.com"
        /\ FindUser("a@x.com").role = "user"
        /\ req[s].params.id = 1
        /\ Len(meals) >= 1 /\ meals[1] # NoMeal
        /\ req[s].resp.status = 403

\* The owner field is absent or names the principal.
OwnedBy(owner, by) == owner = Undefined \/ owner = by

\* C17: every stored meal, review, favorite and order that carries an owner
\* field (userEmail, reviewerEmail, chefEmail) has it equal to the verified
\* principal of the request that created the document.
C17_OwnerIsCreator ==
    /\ \A i \in 1..Len(meals) :
          OwnedBy(meals[i].userEmail, meals[i].by)
              /\ OwnedBy(meals[i].chefEmail, meals[i].by)
    /\ \A i \in 1..Len(orders) : OwnedBy(orders[i].userEmail, orders[i].by)
    /\ \A i \in 1..Len(reviews) :
          OwnedBy(reviews[i].reviewerEmail, reviews[i].by)
    /\ \A i \in 1..Len(favorites) :
          OwnedBy(favorites[i].userEmail, favorites[i].by)

\* C18: every request is terminal: a request that has ended has received a
\* response, and no request is left unanswered by an unexpected failure.
C18_EveryRequestAnswered ==
    \A s \in Slots : req[s].pc = "done" => req[s].resp # NoResponse

ReviewRoutes == {"PATCH /reviews/:id", "DELETE /reviews/:id"}

\* C19: a review is updated or deleted only by the principal its
\* reviewerEmail names: the request of any other principal for a stored
\* review is answered 403, and a step that changes a stored review belongs
\* to a request of the review's reviewerEmail for that review.
C19_ReviewOwnerOnly ==
    /\ [](\A s \in Slots :
            (req[s].route \in ReviewRoutes /\ req[s].pc = "done"
                /\ req[s].tokenEmail # Undefined
                /\ ~NamesNothing(reviews, req[s].params.id, NoReview)
                /\ reviews[req[s].params.id].reviewerEmail # req[s].tokenEmail)
            => req[s].resp.status = 403 /\ req[s].writes = 0)
    /\ [][\A i \in 1..Len(reviews) :
            reviews'[i] # reviews[i]
            => \E s \in Slots :
                  /\ req[s].route \in ReviewRoutes
                  /\ req[s].params.id = i
                  /\ req[s].tokenEmail = reviews[i].reviewerEmail
                  /\ req'[s] # req[s]]_vars

\* C19 witness: the administrator asked to update the review of a@x.com,
\* was answered 403, and the review is stored as a@x.com wrote it.
C19_Witness ==
    \E s \in Slots :
        /\ req[s].route = "PATCH /reviews/:id" /\ req[s].pc = "done"
        /\ req[s].tokenEmail = AdminEmail
        /\ req[s].params.id = 1
        /\ Len(reviews) >= 1
        /\ reviews[1].reviewerEmail = "a@x.com"
        /\ reviews[1].comment = "good"
        /\ req[s].resp.status = 403

\* Some request of the principal is taking the step.
StepOf(email) ==
    \E s \in Slots :
        req[s].tokenEmail = email /\ email # Undefined /\ req'[s] # req[s]

\* C20: a stored resource is changed or deleted only by a request of its
\* owner: a meal by the principal its owner field names, a favorite by the
\* principal of its userEmail, an order's status by the chef of its
\* chefEmail.
C20_OwnerOnlyChanges ==
    [][/\ \A i \in 1..Len(meals) :
             meals'[i] # meals[i]
             => StepOf(meals[i].chefEmail) \/ StepOf(meals[i].userEmail)
       /\ \A i \in 1..Len(favorites) :
             favorites'[i] # favorites[i] => StepOf(favorites[i].userEmail)
       /\ \A i \in 1..Len(orders) :
             orders'[i].orderStatus # orders[i].orderStatus
             => StepOf(orders[i].chefEmail)]_vars

----------------------------------------------------------------------------
PrivateReads == {"GET /users/:email", "GET /user-reviews"}

\* C21: GET /users/:email and GET /user-reviews send stored data only when
\* the requested email is the principal's own; a principal that names another
\* email is answered 403 without the store being read, so whatever is stored.
C21_PrivateReadsSelfOnly ==
    \A s \in Slots : \A route \in PrivateReads :
        Answered(s, route) =>
            LET r == req[s] IN
            /\ r.sent # <<>> => r.params.email = r.tokenEmail
            /\ (~Falsy(r.params.email) /\ r.params.email # r.tokenEmail)
                   => /\ r.resp = Response(403, "Forbidden!")
                      /\ r.sent = <<>>
                      /\ r.reads = 0

\* a@x.com asked for the administrator's record, which is stored, and was
\* refused.
C21_Witness ==
    /\ req["r1"].route = "GET /users/:email"
    /\ req["r1"].pc = "done"
    /\ req["r1"].tokenEmail = "a@x.com"
    /\ req["r1"].params.email = AdminEmail
    /\ FindUser(AdminEmail) # NoUser
    /\ req["r1"].resp.status = 403

----------------------------------------------------------------------------
\* The stored favorites of a user for a meal.
FavoritesOf(userEmail, mealId) ==
    {i \in 1..Len(favorites) :
        /\ favorites[i] # NoFavorite
        /\ favorites[i].userEmail = userEmail
        /\ favorites[i].mealId = mealId}

\* A principal's own POST /favorites, about to look the favorite up.
AddsFavorite(s) ==
    /\ req[s].route = "POST /favorites" /\ req[s].pc = "h1"
    /\ ~Falsy(req[s].body.mealId)
    /\ req[s].body.userEmail = req[s].tokenEmail

\* C23: with requests served one after the other, no two stored favorites
\* have the same userEmail and mealId, a POST /favorites answered 200 leaves
\* exactly one favorite for its pair, and a POST /favorites for a favorite
\* that is stored answers 200 { exists: true } and inserts nothing.
C23_FavoriteIdempotent ==
    /\ [](\A s \in Slots :
             (Answered(s, "POST /favorites") /\ req[s].resp.status = 200)
                 => Cardinality(FavoritesOf(req[s].body.userEmail,
                                            String(req[s].body.mealId))) = 1)
    /\ [](\A i, j \in 1..Len(favorites) :
             (i # j /\ favorites[i] # NoFavorite)
                 => \/ favorites[i].userEmail # favorites[j].userEmail
                    \/ favorites[i].mealId # favorites[j].mealId)
    /\ [][\A s \in Slots :
             (/\ AddsFavorite(s)
              /\ FavoritesOf(req[s].body.userEmail,
                             String(req[s].body.mealId)) # {}
              /\ req'[s] # req[s])
                 => /\ favorites' = favorites
                    /\ req'[s].pc = "done"
                    /\ req'[s].resp = Response(200, "exists")
                    /\ req'[s].writes = 0]_vars

\* The meal 7 is a favorite of a@x.com, and a@x.com's request to add it, the
\* id sent as a number, was answered "exists".
C23_Witness ==
    /\ req["r1"].route = "POST /favorites"
    /\ req["r1"].pc = "done"
    /\ req["r1"].body.mealId = "#7"
    /\ req["r1"].resp = Response(200, "exists")
    /\ Cardinality(FavoritesOf("a@x.com", "7")) = 1

----------------------------------------------------------------------------
PublicReads ==
    {"GET /meals", "GET /meals/:id", "GET /reviews", "GET /reviews/:mealId"}

\* C22: the public reads never resolve an identity: a request to one of them
\* never stands at verifyJWT, and one without an Authorization header is
\* never answered 401.
C22_PublicReadsSkipIdentity ==
    \A s \in Slots :
        req[s].route \in PublicReads
            => /\ req[s].pc # "verifyJWT"
               /\ ~req[s].verifyCalled
               /\ (req[s].pc = "done" /\ req[s].auth = NoHeader)
                      => req[s].resp.status # 401

----------------------------------------------------------------------------
\* C24: every stored user record has a role among user, chef, admin and a
\* status among normal, fraud, whatever bodies the clients send.
C24_UserRecordEnums ==
    \A i \in 1..Len(users) :
        /\ users[i].role \in {"user", "chef", "admin"}
        /\ users[i].status \in {"normal", "fraud"}

----------------------------------------------------------------------------
\* The step is the updateOne of a make-fraud that names the record's email.
FlagsFraud(s, record) ==
    /\ req[s].route = "PATCH /users/make-fraud/:email" /\ req[s].pc = "h1"
    /\ req[s].params.email = record.email

\* The step is the user updateOne of an accept of a request of the record's
\* email.
AcceptsRequestOf(s, record) ==
    /\ req[s].route = "PATCH /role-requests/accept/:id" /\ req[s].pc = "h3"
    /\ req[s].request.userEmail = record.email

\* C25: no step removes a user record; a step that changes a stored record
\* is the update of a make-fraud naming its email, which changes its status
\* to fraud and nothing else, or the user update of an accept for its email,
\* which changes its role and chefId and nothing else.
C25_UserRecordFrame ==
    [][/\ Len(users') >= Len(users)
       /\ \A i \in 1..Len(users) :
             users'[i] # users[i]
                 => \E s \in Slots :
                       \/ /\ FlagsFraud(s, users[i])
                          /\ users'[i] = [users[i] EXCEPT !.status = "fraud"]
                       \/ /\ AcceptsRequestOf(s, users[i])
                          /\ users'[i].email = users[i].email
                          /\ users'[i].status = users[i].status]_vars

\* a@x.com, flagged and made chef since, registered again as an ordinary
\* user: the answer was "User already exists" and the record is as it was.
C25_Witness ==
    /\ req["r1"].route = "POST /users"
    /\ req["r1"].pc = "done"
    /\ req["r1"].body.role = "user"
    /\ req["r1"].body.status = "normal"
    /\ req["r1"].resp = Response(200, "User already exists")
    /\ FindUser("a@x.com").status = "fraud"
    /\ FindUser("a@x.com").role = "chef"

----------------------------------------------------------------------------
\* C29: a user record whose status is fraud stays stored with status fraud
\* in every later state.
C29_FraudPermanent ==
    [][\A i \in 1..Len(users) :
          users[i].status = "fraud"
              => /\ i <= Len(users')
                 /\ users'[i].email = users[i].email
                 /\ users'[i].status = "fraud"]_vars

\* The flagged user a@x.com was made chef by an accept and is still flagged.
C29_Witness ==
    /\ Decided("r1", "PATCH /role-requests/accept/:id")
    /\ req["r1"].request.userEmail = "a@x.com"
    /\ req["r1"].user.status = "fraud"
    /\ req["r1"].userUpdated
    /\ FindUser("a@x.com").status = "fraud"

----------------------------------------------------------------------------
\* The place of an order status in pending, accepted, delivered, cancelled;
\* 0 for any other value.
StatusRank(orderStatus) ==
    CASE orderStatus = "pending" -> 1
      [] orderStatus = "accepted" -> 2
      [] orderStatus = "delivered" -> 3
      [] orderStatus = "cancelled" -> 4
      [] OTHER -> 0

\* C26: an order is stored with orderStatus and paymentStatus pending, and a
\* step that changes the orderStatus of a stored order moves it forward
\* along pending, accepted, delivered, cancelled.
C26_OrderLifecycle ==
    [][\A i \in 1..Len(orders') :
          /\ i > Len(orders)
                => /\ orders'[i].orderStatus = "pending"
                   /\ orders'[i].paymentStatus = "pending"
          /\ (i <= Len(orders)
                /\ orders'[i].orderStatus # orders[i].orderStatus)
                => /\ StatusRank(orders'[i].orderStatus) # 0
                   /\ StatusRank(orders'[i].orderStatus)
                          > StatusRank(orders[i].orderStatus)]_vars

----------------------------------------------------------------------------
\* The step is the user update of an accept, asked by an administrator, of
\* a request of the record's email for the role.
GrantsRole(s, record, role) ==
    /\ AcceptsRequestOf(s, record)
    /\ req[s].request.requestType = role
    /\ FindUser(req[s].tokenEmail).role = "admin"

\* C27: a user record is never created with the role chef or admin, and a
\* step that changes a record's role to chef or admin is the user update of
\* an administrator's accept of a request of that email for that role.
C27_NoSelfPrivilege ==
    [][\A i \in 1..Len(users') :
          users'[i].role \in {"chef", "admin"}
              => IF i > Len(users) THEN FALSE
                 ELSE users'[i].role # users[i].role
                          => \E s \in Slots :
                                GrantsRole(s, users[i], users'[i].role)]_vars

----------------------------------------------------------------------------
\* C28: however registrations overlap, no two stored user records have the
\* same email.
C28_OneRecordPerEmail ==
    \A i, j \in 1..Len(users) :
        users[i].email = users[j].email => i = j

----------------------------------------------------------------------------
\* C30: every stored payment names a stored order whose paymentStatus is
\* paid, and a step that makes an order paid finds a payment session that
\* was created for that order.
C30_PaymentConsistent ==
    /\ [](\A i \in 1..Len(payments) :
             /\ payments[i].orderId \in 1..Len(orders)
             /\ orders[payments[i].orderId] # NoOrder
             /\ orders[payments[i].orderId].paymentStatus = "paid")
    /\ [][\A i \in 1..Len(orders) :
             (orders'[i].paymentStatus = "paid"
                 /\ orders[i].paymentStatus # "paid")
                 => i \in sessions]_vars

====
